---- MODULE Spec2Model ----
(***************************************************************************)
(* Model of the cppLoger logging facility (src/include/Logger.hpp):        *)
(* the Logger singleton (sink manager), its mutex and atomic threshold,    *)
(* the file sink with its 24 hour rotation, and the LogStream builder      *)
(* whose destructor hands the accumulated text to Logger::log.             *)
(*                                                                         *)
(* Text is a sequence of one-character strings.  A "const char*" is a      *)
(* record [null, s]: either the null pointer or a pointer to the text s.   *)
(***************************************************************************)
EXTENDS Integers, Sequences, FiniteSets, TLC

\* ------------------------------------------------------------------ bounds
NumThreads == 2   \* threads that call the facility
MaxOps == 4       \* operations started overall: log calls, builder requests,
                  \* configuration calls and advances of the wall clock
MaxClientOps == 3 \* the same, in the specification of the client surface
MaxNameOps == 3   \* the same, in the specification of the file naming
MaxFairOps == 3   \* the same, in the specification with fair scheduling
MaxSharedOps == 2 \* the same, of two threads with builders
MaxAppends == 2   \* appends applied to one builder
MaxBuilds == 1    \* builders requested in the specification of the appends
MaxHandles == 2   \* FILE objects the C library can hand out at once
MaxPathLen == 3   \* characters of the base paths drawn from PathChars

Threads == 1..NumThreads

\* --------------------------------------------------------- program constants
DEBUG == 0
INFO == 1
WARNING == 2
ERROR == 3
LogLevel == {DEBUG, INFO, WARNING, ERROR}

BUFFER_SIZE == 4096
RotationPeriod == 60 * 60 * 24

NULL == 0          \* the null FILE*; open handles are 1..MaxHandles

\* ------------------------------------------------------------- C strings
CStr(s) == [null |-> FALSE, s |-> s]
NullPtr == [null |-> TRUE, s |-> <<>>]

Min(a, b) == IF a < b THEN a ELSE b

logLevelToString(level) ==
    CASE level = DEBUG -> "DEBUG"
      [] level = INFO -> "INFO"
      [] level = WARNING -> "WARNING"
      [] level = ERROR -> "ERROR"
      [] OTHER -> "UNKNOWN"

\* a colour table that paints every level red
logLevelToColorCodeRed(level) == "\\033[31m"

logLevelToColorCode(level) ==
    CASE level = DEBUG -> "\\033[34m"
      [] level = INFO -> "\\033[32m"
      [] level = WARNING -> "\\033[33m"
      [] level = ERROR -> "\\033[31m"
      [] OTHER -> ""

ResetCode == "\\033[0m"

\* ------------------------------------------------------------------ time
\* localtime + strftime: the calendar day and the second within the day
DayOf(t) == t \div RotationPeriod
SecOf(t) == t % RotationPeriod

\* strftime(timeStr_, "%Y-%m-%d %H:%M:%S")
FormatTime(t) == ToString(DayOf(t)) \o " " \o ToString(SecOf(t))

\* strftime(dateSuffix, "-%Y%m%d.log")
DateSuffix(t) == <<"-", ToString(DayOf(t)), ".", "l", "o", "g">>

\* the wall clock when the process starts: the second day, one second in
StartTime == RotationPeriod + 1

\* ---------------------------------------------------------------- inputs
\* text messages handed directly to Logger::log
Msgs == {CStr(<<"m">>)}
\* base paths handed to setFile
Paths == {<<>>, <<"a", ".", "l", "o", "g">>, <<"b">>}
\* the base paths of the naming specification: those above, one with another
\* extension, two with a dot in the directory part ("./a/a", "a.a/a"), and
\* every path of up to MaxPathLen characters over PathChars
PathChars == {"a", ".", "/"}
NamePaths ==
    Paths \cup {<<"a", ".", "t", "x", "t">>}
          \cup {<<".", "/", "a", "/", "a">>, <<"a", ".", "a", "/", "a">>}
          \cup UNION {[1..n -> PathChars] : n \in 1..MaxPathLen}
\* __FILE__ / std::source_location of the call site of thread t in operation k
Loc(t, k) == [file |-> "main.cpp", line |-> 10 * t + k]

\* ----------------------------------------------------------------- state
VARIABLES
    \* Logger members
    mutex_, level_, console_, fileEnabled_, baseFilePath_,
    fileHandle_, fileOpenTime_, lastTime_, timeStr_,
    \* the environment: wall clock, C library FILE table, file system, stdout
    now, openFiles, fs, stdout, crashed,
    \* whether the build elides the copy of a named local on return (NRVO)
    nrvo,
    \* per thread: position, arguments and locals of the running call
    pc, rec, ret, tnow, arg, stream,
    \* history: whether the thread's last operation requested a builder and
    \* the hand-offs made for it; the appends of the builder; the operations
    \* started so far
    requested, handoffs, napp, nops,
    \* the function-local static of getInstance: its initialisation state
    \* and the number of Logger objects constructed; per thread, the value
    \* the last accessor call returned
    instance, nctor, res,
    \* history: per thread, the fopen calls its running log call has made
    tries,
    \* history: per thread, the values appended to its builder, in call order
    appended

vars == <<mutex_, level_, console_, fileEnabled_, baseFilePath_,
          fileHandle_, fileOpenTime_, lastTime_, timeStr_,
          now, openFiles, fs, stdout, crashed, nrvo,
          pc, rec, ret, tnow, arg, stream,
          requested, handoffs, napp, nops, instance, nctor, res, tries, appended>>

cfgVars == <<level_, console_, fileEnabled_, baseFilePath_>>
timeVars == <<lastTime_, timeStr_>>
fileVars == <<fileHandle_, fileOpenTime_, openFiles, fs>>
envVars == <<now, nrvo>>
callVars == <<rec, ret, tnow>>
builderVars == <<stream, requested, handoffs, napp>>
lifeVars == <<instance, nctor, res>>

NoRec == [id |-> <<0, 0, 0>>, level |-> DEBUG, thr |-> DEBUG, msg |-> NullPtr,
          file |-> "", line |-> 0]
NoArg == [b |-> FALSE, path |-> <<>>]
NoRes == [op |-> "", val |-> 0]

\* LogStream::LogStream
LogStream(level, file, line) ==
    [live |-> TRUE, level |-> level, file |-> file, line |-> line,
     buffer |-> <<>>, offset |-> 0]
NoStream == [LogStream(DEBUG, "", 0) EXCEPT !.live = FALSE]

\* Logger::Logger and the state of the process at start, in a build that
\* elides the copy of a returned local (elide) or does not
Start(elide) ==
    /\ mutex_ = 0
    /\ level_ = INFO
    /\ console_ = TRUE
    /\ fileEnabled_ = FALSE
    /\ baseFilePath_ = <<>>
    /\ fileHandle_ = NULL
    /\ fileOpenTime_ = 0
    /\ lastTime_ = 0
    /\ timeStr_ = ""
    /\ now = StartTime
    /\ openFiles = <<>>
    /\ fs = <<>>
    /\ stdout = <<>>
    /\ crashed = FALSE
    /\ nrvo = elide
    /\ pc = [t \in Threads |-> "idle"]
    /\ rec = [t \in Threads |-> NoRec]
    /\ ret = [t \in Threads |-> "idle"]
    /\ tnow = [t \in Threads |-> 0]
    /\ arg = [t \in Threads |-> NoArg]
    /\ stream = [t \in Threads |-> NoStream]
    /\ requested = [t \in Threads |-> 0]
    /\ handoffs = [t \in Threads |-> 0]
    /\ napp = [t \in Threads |-> 0]
    /\ nops = 0
    /\ instance = "live"
    /\ nctor = 1
    /\ res = [t \in Threads |-> NoRes]
    /\ tries = [t \in Threads |-> 0]
    /\ appended = [t \in Threads |-> <<>>]

\* ------------------------------------------------------ the mutex (lock_guard)
\* a guard that takes the mutex without waiting for its holder
AcquireNoWait(t) == mutex_' = t

\* std::lock_guard<std::mutex> lock(mutex_)
Acquire(t) == mutex_ = 0 /\ mutex_' = t

\* a guard that goes out of scope without unlocking
ReleaseNever(t) == mutex_' = mutex_

\* the end of the guard's scope
Release(t) == mutex_' = (IF mutex_ = t THEN 0 ELSE mutex_)

\* ------------------------------------------------------------ the file sink
\* The file members of Logger together with the C library's table of open
\* FILE objects and the file system, as one value the helpers transform.
\* n counts the calls of fopen
FileState == [h |-> fileHandle_, ot |-> fileOpenTime_, of |-> openFiles,
              fs |-> fs, ub |-> FALSE, n |-> 0]

SetFileState(S) ==
    /\ fileHandle_' = S.h
    /\ fileOpenTime_' = S.ot
    /\ openFiles' = S.of
    /\ fs' = S.fs

Restrict(f, D) == [x \in D |-> f[x]]

\* an fflush that leaves the bytes in the buffer
FflushLater(S, h) == S

\* an fflush that puts the bytes in front of what the file holds
FflushFront(S, h) ==
    IF h \in DOMAIN S.of
    THEN [S EXCEPT !.fs[S.of[h].path] = S.of[h].buf \o @,
                   !.of[h].buf = <<>>]
    ELSE [S EXCEPT !.ub = TRUE]

\* fflush(h): the buffered bytes of the FILE reach the file
Fflush(S, h) ==
    IF h \in DOMAIN S.of
    THEN [S EXCEPT !.fs[S.of[h].path] = @ \o S.of[h].buf,
                   !.of[h].buf = <<>>]
    ELSE [S EXCEPT !.ub = TRUE]

\* fclose(h): flush, then the FILE object is gone
Fclose(S, h) ==
    IF h \in DOMAIN S.of
    THEN LET F == Fflush(S, h)
         IN [F EXCEPT !.of = Restrict(F.of, DOMAIN F.of \ {h})]
    ELSE [S EXCEPT !.ub = TRUE]

\* an fopen whose refusal is an error raised to the caller
FopenRaises(S, path, ok) ==
    LET free == (1..MaxHandles) \ DOMAIN S.of
    IN IF ok /\ free # {}
       THEN LET h == CHOOSE x \in free : \A y \in free : x <= y
            IN [S EXCEPT !.n = @ + 1, !.h = h,
                         !.of = (h :> [path |-> path, buf |-> <<>>]) @@ S.of,
                         !.fs = IF path \in DOMAIN S.fs THEN S.fs
                                ELSE (path :> <<>>) @@ S.fs]
       ELSE [S EXCEPT !.n = @ + 1, !.h = NULL, !.ub = TRUE]

\* an fopen(path, "w"): the file is emptied when it is opened
FopenTruncates(S, path, ok) ==
    LET free == (1..MaxHandles) \ DOMAIN S.of
    IN IF ok /\ free # {}
       THEN LET h == CHOOSE x \in free : \A y \in free : x <= y
            IN [S EXCEPT !.n = @ + 1, !.h = h,
                         !.of = (h :> [path |-> path, buf |-> <<>>]) @@ S.of,
                         !.fs = (path :> <<>>) @@ S.fs]
       ELSE [S EXCEPT !.n = @ + 1, !.h = NULL]

\* fopen(path, "a"): a new FILE on the file, created empty when absent and
\* never truncated; NULL when the open is refused or no FILE is left
Fopen(S, path, ok) ==
    LET free == (1..MaxHandles) \ DOMAIN S.of
    IN IF ok /\ free # {}
       THEN LET h == CHOOSE x \in free : \A y \in free : x <= y
            IN [S EXCEPT !.n = @ + 1, !.h = h,
                         !.of = (h :> [path |-> path, buf |-> <<>>]) @@ S.of,
                         !.fs = IF path \in DOMAIN S.fs THEN S.fs
                                ELSE (path :> <<>>) @@ S.fs]
       ELSE [S EXCEPT !.n = @ + 1, !.h = NULL]

\* a closeLogFile that closes the FILE and keeps the pointer to it
closeLogFileDangling(S) == IF S.h # NULL THEN Fclose(S, S.h) ELSE S

\* a closeLogFile that forgets the handle without fclose
closeLogFileLeak(S) == [S EXCEPT !.h = NULL]

\* Logger::closeLogFile
closeLogFile(S) ==
    IF S.h # NULL THEN [Fclose(S, S.h) EXCEPT !.h = NULL] ELSE S

\* std::string::find_last_of('.'): the 1-based position of the last dot, 0
\* when there is none
FindLastDot(p) ==
    LET dots == {i \in 1..Len(p) : p[i] = "."}
    IN IF dots = {} THEN 0 ELSE CHOOSE i \in dots : \A j \in dots : j <= i

\* the path openLogFile opens for base path `base` at time t
FinalPath(base, t) ==
    LET dotPos == FindLastDot(base)
    IN IF dotPos = 0 THEN base \o DateSuffix(t)
       ELSE SubSeq(base, 1, dotPos - 1) \o DateSuffix(t)

\* an openLogFile that records the time whether or not the open succeeded
openLogFileStamps(S, base, t, ok) ==
    LET C == closeLogFile(S)
        O == Fopen(C, FinalPath(base, t), ok)
    IN [O EXCEPT !.ot = t]

\* Logger::openLogFile, at wall-clock time t, the open granted or refused
openLogFile(S, base, t, ok) ==
    LET C == closeLogFile(S)
        O == Fopen(C, FinalPath(base, t), ok)
    IN IF O.h # NULL THEN [O EXCEPT !.ot = t] ELSE O

\* ------------------------------------------------------------- rendering
\* the console line of fprintf(stdout, "%s [%s%s%s] %s:%d - %s\n", ...)
ConsoleLine(ts, level, file, line, text) ==
    <<ts, " [", logLevelToColorCode(level), logLevelToString(level),
      ResetCode, "] ", file, ":", ToString(line), " - ">> \o text \o <<"\n">>

\* the file line of fprintf(fileHandle_, "%s [%s] %s:%d - %s\n", ...), which
\* reaches the FILE buffer in two pieces
FileHead(ts, level, file, line) ==
    <<ts, " [", logLevelToString(level), "] ", file, ":", ToString(line),
      " - ">>
FileTail(text) == text \o <<"\n">>

\* what "%s" prints for a null pointer when the C library does not fault
NullText == <<"(null)">>

\* ------------------------------------------------------------ the builder
\* an append that copies the whole text whatever room is left
appendUnbounded(b, str) ==
    [b EXCEPT !.buffer = SubSeq(b.buffer, 1, b.offset) \o str,
              !.offset = b.offset + Len(str)]

\* LogStream::append
append(b, str) ==
    LET room == BUFFER_SIZE - 1 - b.offset
        len == IF room <= 0 THEN 0 ELSE Min(Len(str), room)
    IN [b EXCEPT !.buffer = SubSeq(b.buffer, 1, b.offset) \o SubSeq(str, 1, len),
                 !.offset = b.offset + len]

\* the values a caller appends, by overload of operator<<
\* a floating-point value, given by its decimal expansion rounded to four
\* decimals: sign, integer digits, four fraction digits
Float(neg, ip, frac) == [neg |-> neg, ip |-> ip, frac |-> frac]
NoFloat == Float(FALSE, <<"0">>, <<"0", "0", "0", "0">>)
NoVal == [kind |-> "", p |-> NullPtr, b |-> FALSE, c |-> "", m |-> "None",
          n |-> 0, f |-> NoFloat]
CStrVal(p) == [NoVal EXCEPT !.kind = "cstr", !.p = p]
StringVal(str) == [NoVal EXCEPT !.kind = "string", !.p = CStr(str)]
BoolVal(b) == [NoVal EXCEPT !.kind = "bool", !.b = b]
CharVal(c) == [NoVal EXCEPT !.kind = "char", !.c = c]
ManipVal(m) == [NoVal EXCEPT !.kind = "manip", !.m = m]
IntVal(n) == [NoVal EXCEPT !.kind = "int", !.n = n]
FloatVal(f) == [NoVal EXCEPT !.kind = "float", !.f = f]
\* a const void*: null, or an address given by its hexadecimal digits
PtrVal(p) == [NoVal EXCEPT !.kind = "ptr", !.p = p]

\* operator<<(const char*)
ShlCStr(b, p) == IF ~p.null THEN append(b, p.s) ELSE b

\* operator<<(const std::string&)
ShlString(b, str) == append(b, str)

\* a bool printed as a digit
ShlBoolDigit(b, val) == append(b, IF val THEN <<"1">> ELSE <<"0">>)

\* operator<<(T) for T = bool
ShlBool(b, val) ==
    append(b, IF val THEN <<"t", "r", "u", "e">> ELSE <<"f", "a", "l", "s", "e">>)

\* operator<<(char)
ShlChar(b, c) ==
    IF b.offset < BUFFER_SIZE - 1
    THEN [b EXCEPT !.buffer = SubSeq(b.buffer, 1, b.offset) \o <<c>>,
                   !.offset = b.offset + 1]
    ELSE b

\* operator<<(StdManipulator)
ShlManip(b, m) == IF m = "Endl" \/ m = "Flush" THEN append(b, <<"\n">>) ELSE b

\* std::to_chars of an integer: its decimal digits
DigitChar(d) == <<"0", "1", "2", "3", "4", "5", "6", "7", "8", "9">>[d + 1]
RECURSIVE ToChars(_)
ToChars(n) ==
    IF n < 0 THEN <<"-">> \o ToChars(-n)
    ELSE IF n < 10 THEN <<DigitChar(n)>>
    ELSE ToChars(n \div 10) \o <<DigitChar(n % 10)>>

\* operator<<(T) for an integer T: converted in place when at least 24
\* bytes are left
ShlInt(b, n) ==
    IF b.offset < BUFFER_SIZE - 24
    THEN [b EXCEPT !.buffer = SubSeq(b.buffer, 1, b.offset) \o ToChars(n),
                   !.offset = b.offset + Len(ToChars(n))]
    ELSE b

\* the text "%.4f" stands for
Fixed4(f) ==
    (IF f.neg THEN <<"-">> ELSE <<>>) \o f.ip \o <<".">> \o f.frac

\* sizeof(tmp) of the conversion buffers
TmpSize == 32

\* snprintf(tmp, sizeof(tmp), ...): at most sizeof(tmp) - 1 characters of
\* the text are stored, and the length of the whole text is returned
Snprintf(text) ==
    [tmp |-> SubSeq(text, 1, Min(Len(text), TmpSize - 1)), len |-> Len(text)]

\* operator<<(T) for a floating-point T
ShlFloat(b, f) ==
    LET r == Snprintf(Fixed4(f))
    IN IF r.len > 0 THEN append(b, r.tmp) ELSE b

\* the text "%p" stands for (glibc)
PointerText(p) ==
    IF p.null THEN <<"(", "n", "i", "l", ")">> ELSE <<"0", "x">> \o p.s

\* operator<<(const void*)
ShlPtr(b, p) == append(b, Snprintf(PointerText(p)).tmp)

Shl(b, v) ==
    CASE v.kind = "cstr" -> ShlCStr(b, v.p)
      [] v.kind = "string" -> ShlString(b, v.p.s)
      [] v.kind = "bool" -> ShlBool(b, v.b)
      [] v.kind = "char" -> ShlChar(b, v.c)
      [] v.kind = "manip" -> ShlManip(b, v.m)
      [] v.kind = "int" -> ShlInt(b, v.n)
      [] v.kind = "float" -> ShlFloat(b, v.f)
      [] v.kind = "ptr" -> ShlPtr(b, v.p)
      [] OTHER -> b

\* a prefix without the colon and the blank
FatalPrefixBare == <<"F", "A", "T", "A", "L">>

FatalPrefix == <<"F", "A", "T", "A", "L", " ", "E", "R", "R", "O", "R", ":", " ">>

Entries == {"debug", "info", "warning", "error", "fatal"}

\* the severity each entry point binds
EntryLevel(e) ==
    CASE e = "debug" -> DEBUG
      [] e = "info" -> INFO
      [] e = "warning" -> WARNING
      [] OTHER -> ERROR

\* the builder each entry point constructs before it returns
EntryStream(e, loc) ==
    IF e = "fatal"
    THEN ShlCStr(LogStream(ERROR, loc.file, loc.line), CStr(FatalPrefix))
    ELSE LogStream(EntryLevel(e), loc.file, loc.line)

\* what the entry point has appended before it returns
EntryAppends(e) ==
    IF e = "fatal" THEN <<CStrVal(CStr(FatalPrefix))>> ELSE <<>>

\* values appended to builders
Vals == {CStrVal(CStr(<<"x">>)), CStrVal(NullPtr), ManipVal("Endl")}

\* n times the character c
Rep(c, n) == [i \in 1..n |-> c]

\* texts that fill a builder up to the integer gate, up to its last free
\* characters, to its capacity and beyond
Fills ==
    {Rep("x", n) : n \in {BUFFER_SIZE - 25, BUFFER_SIZE - 24, BUFFER_SIZE - 2,
                          BUFFER_SIZE - 1, BUFFER_SIZE + 4}}

\* 2^86 and 2^87, the largest power of two whose "%.4f" text fits the
\* conversion buffer and the first that does not, and DBL_MAX
Pow86 ==
    <<"7", "7", "3", "7", "1", "2", "5", "2", "4", "5", "5", "3", "3", "6",
      "2", "6", "7", "1", "8", "1", "1", "9", "5", "2", "6", "4">>
Pow87 ==
    <<"1", "5", "4", "7", "4", "2", "5", "0", "4", "9", "1", "0", "6", "7",
      "2", "5", "3", "4", "3", "6", "2", "3", "9", "0", "5", "2", "8">>
DblMax ==
    <<"1", "7", "9", "7", "6", "9", "3", "1", "3", "4", "8", "6", "2", "3",
      "1", "5", "7", "0", "8", "1", "4", "5", "2", "7", "4", "2", "3", "7",
      "3", "1", "7", "0", "4", "3", "5", "6", "7", "9", "8", "0", "7", "0",
      "5", "6", "7", "5", "2", "5", "8", "4", "4", "9", "9", "6", "5", "9",
      "8", "9", "1", "7", "4", "7", "6", "8", "0", "3", "1", "5", "7", "2",
      "6", "0", "7", "8", "0", "0", "2", "8", "5", "3", "8", "7", "6", "0",
      "5", "8", "9", "5", "5", "8", "6", "3", "2", "7", "6", "6", "8", "7",
      "8", "1", "7", "1", "5", "4", "0", "4", "5", "8", "9", "5", "3", "5",
      "1", "4", "3", "8", "2", "4", "6", "4", "2", "3", "4", "3", "2", "1",
      "3", "2", "6", "8", "8", "9", "4", "6", "4", "1", "8", "2", "7", "6",
      "8", "4", "6", "7", "5", "4", "6", "7", "0", "3", "5", "3", "7", "5",
      "1", "6", "9", "8", "6", "0", "4", "9", "9", "1", "0", "5", "7", "6",
      "5", "5", "1", "2", "8", "2", "0", "7", "6", "2", "4", "5", "4", "9",
      "0", "0", "9", "0", "3", "8", "9", "3", "2", "8", "9", "4", "4", "0",
      "7", "5", "8", "6", "8", "5", "0", "8", "4", "5", "5", "1", "3", "3",
      "9", "4", "2", "3", "0", "4", "5", "8", "3", "2", "3", "6", "9", "0",
      "3", "2", "2", "2", "9", "4", "8", "1", "6", "5", "8", "0", "8", "5",
      "5", "9", "3", "3", "2", "1", "2", "3", "3", "4", "8", "2", "7", "4",
      "7", "9", "7", "8", "2", "6", "2", "0", "4", "1", "4", "4", "7", "2",
      "3", "1", "6", "8", "7", "3", "8", "1", "7", "7", "1", "8", "0", "9",
      "1", "9", "2", "9", "9", "8", "8", "1", "2", "5", "0", "4", "0", "4",
      "0", "2", "6", "1", "8", "4", "1", "2", "4", "8", "5", "8", "3", "6",
      "8">>
Zeros4 == <<"0", "0", "0", "0">>
Floats ==
    {Float(TRUE, <<"2">>, <<"5", "0", "0", "0">>), Float(FALSE, <<"1">>, Zeros4),
     Float(FALSE, Pow86, Zeros4), Float(FALSE, Pow87, Zeros4),
     Float(FALSE, DblMax, Zeros4)}

\* values of every overload of operator<<
AllVals ==
    {CStrVal(CStr(<<"x">>)), CStrVal(CStr(<<>>)), CStrVal(NullPtr),
     StringVal(<<"s">>), BoolVal(TRUE), BoolVal(FALSE), CharVal("c"),
     ManipVal("Endl"), ManipVal("Flush"), ManipVal("None"),
     IntVal(0), IntVal(5), IntVal(-42), IntVal(2147483647),
     IntVal(-2147483647),
     PtrVal(NullPtr), PtrVal(CStr(<<"7", "f", "f", "e">>))}
      \cup {CStrVal(CStr(fill)) : fill \in Fills}
      \cup {FloatVal(f) : f \in Floats}

\* ------------------------------------------------------------ Logger::log
\* a filter that also drops the records at the threshold
FilteredAtThreshold(level, threshold) == level <= threshold

\* a filter that lets every record through to the lock
FilteredNever(level, threshold) == FALSE

\* the lock-free filter at the head of log
Filtered(level, threshold) == level < threshold

\* a rotation test that already fires at exactly 24 hours
NeedsRotationAtPeriod(n, openTime) == n - openTime >= RotationPeriod

\* the rotation test of log
NeedsRotation(n, openTime) == n - openTime > RotationPeriod

\* whether log enters its file block
FileBlock(enabled, handle) == enabled /\ handle # NULL

\* A call log(level, message, file, line) by thread t that returns to
\* position retpc; j tells the hand-offs of one call site apart.
Log(t, j, level, msg, loc, retpc) ==
    /\ pc' = [pc EXCEPT ![t] = "log_filter"]
    /\ rec' = [rec EXCEPT ![t] = [id |-> <<t, loc.line, j>>, level |-> level,
                                  thr |-> DEBUG, msg |-> msg,
                                  file |-> loc.file, line |-> loc.line]]
    /\ ret' = [ret EXCEPT ![t] = retpc]

\* the head of log: level_.load() and the early return.  thr remembers the
\* threshold that was read.
LogFilter(t) ==
    /\ ~crashed /\ pc[t] = "log_filter"
    /\ IF Filtered(rec[t].level, level_)
       THEN /\ pc' = [pc EXCEPT ![t] = ret[t]]
            /\ rec' = [rec EXCEPT ![t] = NoRec]
            /\ ret' = [ret EXCEPT ![t] = "idle"]
       ELSE /\ pc' = [pc EXCEPT ![t] = "log_lock"]
            /\ rec' = [rec EXCEPT ![t].thr = level_]
            /\ ret' = ret
    /\ UNCHANGED <<lifeVars, tries, appended>>
    /\ UNCHANGED <<mutex_, cfgVars, timeVars, fileVars, envVars, stdout,
                   crashed, tnow, arg, builderVars, nops>>

\* a thread calls Logger::getInstance().log(...) directly
LogCall(t, level, msg) ==
    /\ ~crashed /\ pc[t] = "idle" /\ nops < MaxOps
    /\ nops' = nops + 1
    /\ requested' = [requested EXCEPT ![t] = 0]
    /\ handoffs' = [handoffs EXCEPT ![t] = 0]
    /\ Log(t, 0, level, msg, Loc(t, nops + 1), "idle")
    /\ UNCHANGED <<lifeVars, tries, appended>>
    /\ UNCHANGED <<mutex_, cfgVars, timeVars, fileVars, envVars, stdout,
                   crashed, tnow, arg, stream, napp>>

\* a cache that is refreshed only when the day changes
SecondChangedByDay(t, last) == DayOf(t) # DayOf(last)

\* `now != lastTime_`: the cached string is of another second
SecondChanged(t, last) == t # last

\* Logger::updateTimeStr
updateTimeStr(t) == FormatTime(t)

\* lock_guard, std::time and the refresh of the cached time string
LogAcquire(t) ==
    /\ ~crashed /\ pc[t] = "log_lock"
    /\ Acquire(t)
    /\ tnow' = [tnow EXCEPT ![t] = now]
    /\ IF SecondChanged(now, lastTime_)
       THEN timeStr_' = updateTimeStr(now) /\ lastTime_' = now
       ELSE UNCHANGED timeVars
    /\ pc' = [pc EXCEPT ![t] = "log_console"]
    /\ UNCHANGED <<lifeVars, tries, appended>>
    /\ UNCHANGED <<cfgVars, fileVars, envVars, stdout, crashed, rec, ret, arg,
                   builderVars, nops>>

\* a log that tests the threshold again once it holds the mutex
LogConsoleRefilters(t) ==
    /\ ~crashed /\ pc[t] = "log_console"
    /\ crashed' = crashed
    /\ IF Filtered(rec[t].level, level_)
       THEN pc' = [pc EXCEPT ![t] = "log_unlock"] /\ stdout' = stdout
       ELSE /\ pc' = [pc EXCEPT ![t] = "log_file"]
            /\ IF console_
               THEN stdout' = Append(stdout,
                      [id |-> rec[t].id,
                       text |-> ConsoleLine(timeStr_, rec[t].level,
                                   rec[t].file, rec[t].line, rec[t].msg.s)])
               ELSE stdout' = stdout
    /\ UNCHANGED <<lifeVars, tries, appended>>
    /\ UNCHANGED <<mutex_, cfgVars, timeVars, fileVars, envVars, rec, ret,
                   tnow, arg, builderVars, nops>>

\* the console fprintf; "%s" of a null message is undefined behaviour: the
\* C library prints a placeholder or the process faults
LogConsole(t) ==
    /\ ~crashed /\ pc[t] = "log_console"
    /\ \E fault \in (IF console_ /\ rec[t].msg.null THEN BOOLEAN ELSE {FALSE}) :
         IF fault
         THEN crashed' = TRUE /\ UNCHANGED <<stdout, pc>>
         ELSE /\ crashed' = crashed
              /\ pc' = [pc EXCEPT ![t] = "log_file"]
              /\ IF console_
                 THEN stdout' = Append(stdout,
                        [id |-> rec[t].id,
                         text |-> ConsoleLine(timeStr_, rec[t].level,
                                     rec[t].file, rec[t].line,
                                     IF rec[t].msg.null THEN NullText
                                     ELSE rec[t].msg.s)])
                 ELSE stdout' = stdout
    /\ UNCHANGED <<lifeVars, tries, appended>>
    /\ UNCHANGED <<mutex_, cfgVars, timeVars, fileVars, envVars, rec, ret,
                   tnow, arg, builderVars, nops>>

\* a log that keeps the name of the file it opened as the base path
LogFileRenames(t) ==
    /\ ~crashed /\ pc[t] = "log_file"
    /\ IF FileBlock(fileEnabled_, fileHandle_)
       THEN \E ok1, ok2 \in BOOLEAN :
              LET S1 == IF NeedsRotation(tnow[t], fileOpenTime_)
                        THEN openLogFile(FileState, baseFilePath_, now, ok1)
                        ELSE FileState
                  S2 == IF S1.h = NULL
                        THEN openLogFile(S1, baseFilePath_, now, ok2)
                        ELSE S1
              IN /\ SetFileState(S2)
                 /\ tries' = [tries EXCEPT ![t] = S2.n]
                 /\ crashed' = S2.ub
                 /\ pc' = [pc EXCEPT ![t] = IF S2.h # NULL THEN "log_fprintf1"
                                            ELSE "log_unlock"]
       ELSE /\ UNCHANGED <<fileVars, crashed, tries>>
            /\ pc' = [pc EXCEPT ![t] = "log_unlock"]
    /\ baseFilePath_' = (IF fileHandle_' # NULL /\ tries'[t] > 0
                        THEN openFiles'[fileHandle_'].path
                        ELSE baseFilePath_)
    /\ UNCHANGED <<lifeVars, appended>>
    /\ UNCHANGED <<mutex_, level_, console_, fileEnabled_, timeVars, envVars,
                   stdout, rec, ret, tnow, arg, builderVars, nops>>

\* the file block up to the write: rotation after 24 hours and the reopen
\* of an invalid handle; each fopen is granted or refused by the system
LogFile(t) ==
    /\ ~crashed /\ pc[t] = "log_file"
    /\ IF FileBlock(fileEnabled_, fileHandle_)
       THEN \E ok1, ok2 \in BOOLEAN :
              LET S1 == IF NeedsRotation(tnow[t], fileOpenTime_)
                        THEN openLogFile(FileState, baseFilePath_, now, ok1)
                        ELSE FileState
                  S2 == IF S1.h = NULL
                        THEN openLogFile(S1, baseFilePath_, now, ok2)
                        ELSE S1
              IN /\ SetFileState(S2)
                 /\ tries' = [tries EXCEPT ![t] = S2.n]
                 /\ crashed' = S2.ub
                 /\ pc' = [pc EXCEPT ![t] = IF S2.h # NULL THEN "log_fprintf1"
                                            ELSE "log_unlock"]
       ELSE /\ UNCHANGED <<fileVars, crashed, tries>>
            /\ pc' = [pc EXCEPT ![t] = "log_unlock"]
    /\ UNCHANGED <<lifeVars, appended>>
    /\ UNCHANGED <<mutex_, cfgVars, timeVars, envVars, stdout, rec, ret, tnow,
                   arg, builderVars, nops>>

\* bytes put into the buffer of the FILE fileHandle_ points to; a write through
\* a pointer that is null or no longer open is undefined behaviour
Fputs(t, part, text) ==
    IF fileHandle_ \in DOMAIN openFiles
    THEN /\ openFiles' = [openFiles EXCEPT ![fileHandle_].buf =
                 Append(@, [id |-> rec[t].id, part |-> part, text |-> text])]
         /\ crashed' = crashed
    ELSE /\ openFiles' = openFiles
         /\ crashed' = TRUE

\* the file fprintf, first piece: time, level and location
LogFprintf1(t) ==
    /\ ~crashed /\ pc[t] = "log_fprintf1"
    /\ Fputs(t, "head", FileHead(timeStr_, rec[t].level, rec[t].file,
                                 rec[t].line))
    /\ pc' = [pc EXCEPT ![t] = "log_fprintf2"]
    /\ UNCHANGED <<lifeVars, tries, appended>>
    /\ UNCHANGED <<mutex_, cfgVars, timeVars, fileHandle_, fileOpenTime_, fs,
                   envVars, stdout, rec, ret, tnow, arg, builderVars, nops>>

\* the file fprintf, second piece: the message and the newline
LogFprintf2(t) ==
    /\ ~crashed /\ pc[t] = "log_fprintf2"
    /\ \E fault \in (IF rec[t].msg.null THEN BOOLEAN ELSE {FALSE}) :
         IF fault
         THEN crashed' = TRUE /\ UNCHANGED <<openFiles, pc>>
         ELSE /\ Fputs(t, "tail", FileTail(IF rec[t].msg.null THEN NullText
                                           ELSE rec[t].msg.s))
              /\ pc' = [pc EXCEPT ![t] = "log_fflush"]
    /\ UNCHANGED <<lifeVars, tries, appended>>
    /\ UNCHANGED <<mutex_, cfgVars, timeVars, fileHandle_, fileOpenTime_, fs,
                   envVars, stdout, rec, ret, tnow, arg, builderVars, nops>>

\* fflush(fileHandle_)
LogFflush(t) ==
    /\ ~crashed /\ pc[t] = "log_fflush"
    /\ LET S == Fflush(FileState, fileHandle_)
       IN SetFileState(S) /\ crashed' = S.ub
    /\ pc' = [pc EXCEPT ![t] = "log_unlock"]
    /\ UNCHANGED <<lifeVars, tries, appended>>
    /\ UNCHANGED <<mutex_, cfgVars, timeVars, envVars, stdout, rec, ret, tnow,
                   arg, builderVars, nops>>

\* the lock_guard is destroyed and log returns
LogUnlock(t) ==
    /\ ~crashed /\ pc[t] = "log_unlock"
    /\ Release(t)
    /\ pc' = [pc EXCEPT ![t] = ret[t]]
    /\ rec' = [rec EXCEPT ![t] = NoRec]
    /\ ret' = [ret EXCEPT ![t] = "idle"]
    /\ tnow' = [tnow EXCEPT ![t] = 0]
    /\ tries' = [tries EXCEPT ![t] = 0]
    /\ UNCHANGED <<lifeVars, appended>>
    /\ UNCHANGED <<cfgVars, timeVars, fileVars, envVars, stdout, crashed, arg,
                   builderVars, nops>>

\* ------------------------------------------------------- configuration calls
\* Logger::setLevel: one atomic store, no lock
SetLevel(t, level) ==
    /\ ~crashed /\ pc[t] = "idle" /\ nops < MaxOps
    /\ level_' = level
    /\ nops' = nops + 1
    /\ UNCHANGED <<lifeVars, tries, appended>>
    /\ UNCHANGED <<mutex_, console_, fileEnabled_, baseFilePath_, timeVars,
                   fileVars, envVars, stdout, crashed, pc, callVars, arg,
                   builderVars>>

\* a load that returns the value the atomic was constructed with
LoadStale(a) == INFO

\* std::atomic<LogLevel>::load
Load(a) == a

\* Logger::getLevel: one atomic load, no lock
GetLevel(t) ==
    /\ ~crashed /\ pc[t] = "idle"
    /\ res' = [res EXCEPT ![t] = [op |-> "getLevel", val |-> Load(level_)]]
    /\ UNCHANGED <<instance, nctor, tries, appended, mutex_, cfgVars, timeVars, fileVars,
                   envVars, stdout, crashed, pc, callVars, arg, builderVars,
                   nops>>

\* Logger::setConsole: the lock_guard
SetConsoleEnter(t, b) ==
    /\ ~crashed /\ pc[t] = "idle" /\ nops < MaxOps
    /\ Acquire(t)
    /\ arg' = [arg EXCEPT ![t] = [b |-> b, path |-> <<>>]]
    /\ pc' = [pc EXCEPT ![t] = "sc_body"]
    /\ nops' = nops + 1
    /\ UNCHANGED <<lifeVars, tries, appended>>
    /\ UNCHANGED <<cfgVars, timeVars, fileVars, envVars, stdout, crashed,
                   callVars, builderVars>>

\* a setConsole that flips the flag instead of assigning the argument
SetConsoleFlip(t) ==
    /\ ~crashed /\ pc[t] = "sc_body"
    /\ console_' = ~console_
    /\ Release(t)
    /\ pc' = [pc EXCEPT ![t] = "idle"]
    /\ arg' = [arg EXCEPT ![t] = NoArg]
    /\ UNCHANGED <<lifeVars, tries, appended>>
    /\ UNCHANGED <<level_, fileEnabled_, baseFilePath_, timeVars,
                   fileVars, envVars, stdout, crashed, callVars, builderVars,
                   nops>>

\* Logger::setConsole: the assignment and the return
SetConsoleBody(t) ==
    /\ ~crashed /\ pc[t] = "sc_body"
    /\ console_' = arg[t].b
    /\ Release(t)
    /\ pc' = [pc EXCEPT ![t] = "idle"]
    /\ arg' = [arg EXCEPT ![t] = NoArg]
    /\ UNCHANGED <<lifeVars, tries, appended>>
    /\ UNCHANGED <<level_, fileEnabled_, baseFilePath_, timeVars, fileVars,
                   envVars, stdout, crashed, callVars, builderVars, nops>>

\* Logger::setFile: the lock_guard
SetFileEnter(t, enable, filePath) ==
    /\ ~crashed /\ pc[t] = "idle" /\ nops < MaxOps
    /\ Acquire(t)
    /\ arg' = [arg EXCEPT ![t] = [b |-> enable, path |-> filePath]]
    /\ pc' = [pc EXCEPT ![t] = "sf_body"]
    /\ nops' = nops + 1
    /\ UNCHANGED <<lifeVars, tries, appended>>
    /\ UNCHANGED <<cfgVars, timeVars, fileVars, envVars, stdout, crashed,
                   callVars, builderVars>>

\* a setFile that opens whatever the path
SetFileOpensAnyPath(enable, filePath) == enable

\* whether setFile opens the file (otherwise it closes it)
SetFileOpens(enable, filePath) == enable /\ filePath # <<>>

\* Logger::setFile: the assignments, the open or close, and the return
SetFileBody(t) ==
    /\ ~crashed /\ pc[t] = "sf_body"
    /\ fileEnabled_' = arg[t].b
    /\ baseFilePath_' = arg[t].path
    /\ \E ok \in (IF SetFileOpens(arg[t].b, arg[t].path) THEN BOOLEAN
                  ELSE {FALSE}) :
         LET S == IF SetFileOpens(arg[t].b, arg[t].path)
                  THEN openLogFile(FileState, arg[t].path, now, ok)
                  ELSE closeLogFile(FileState)
         IN SetFileState(S) /\ crashed' = S.ub
    /\ Release(t)
    /\ pc' = [pc EXCEPT ![t] = "idle"]
    /\ arg' = [arg EXCEPT ![t] = NoArg]
    /\ UNCHANGED <<lifeVars, tries, appended>>
    /\ UNCHANGED <<level_, console_, timeVars, envVars, stdout, callVars,
                   builderVars, nops>>

\* ------------------------------------------------------------ the builder
\* Logger::debug/info/warning/error/fatal: the caller obtains a builder.
\* fatal returns a named local: a build that does not elide the copy destroys
\* the local after copying it, and that destructor runs log too.
BuilderNew(t, e) ==
    /\ ~crashed /\ pc[t] = "idle" /\ nops < MaxOps
    /\ nops' = nops + 1
    /\ requested' = [requested EXCEPT ![t] = 1]
    /\ napp' = [napp EXCEPT ![t] = 0]
    /\ appended' = [appended EXCEPT ![t] = EntryAppends(e)]
    /\ LET b == EntryStream(e, Loc(t, nops + 1))
       IN /\ stream' = [stream EXCEPT ![t] = b]
          /\ IF e = "fatal" /\ ~nrvo
             THEN /\ handoffs' = [handoffs EXCEPT ![t] = 1]
                  /\ Log(t, 1, b.level, CStr(b.buffer),
                         [file |-> b.file, line |-> b.line], "accum")
             ELSE /\ handoffs' = [handoffs EXCEPT ![t] = 0]
                  /\ pc' = [pc EXCEPT ![t] = "accum"]
                  /\ UNCHANGED <<rec, ret>>
    /\ UNCHANGED <<lifeVars, tries>>
    /\ UNCHANGED <<mutex_, cfgVars, timeVars, fileVars, envVars, stdout,
                   crashed, tnow, arg>>

\* an operator<< that takes the mutex of the logger
BuilderAppendLocked(t, v) ==
    /\ ~crashed /\ pc[t] = "accum" /\ napp[t] < MaxAppends
    /\ Acquire(t)
    /\ stream' = [stream EXCEPT ![t] = Shl(@, v)]
    /\ napp' = [napp EXCEPT ![t] = @ + 1]
    /\ appended' = [appended EXCEPT ![t] = Append(@, v)]
    /\ UNCHANGED <<lifeVars, tries>>
    /\ UNCHANGED <<cfgVars, timeVars, fileVars, envVars, stdout,
                   crashed, pc, callVars, arg, requested, handoffs, nops>>

\* one chained operator<<
BuilderAppend(t, v) ==
    /\ ~crashed /\ pc[t] = "accum" /\ napp[t] < MaxAppends
    /\ stream' = [stream EXCEPT ![t] = Shl(@, v)]
    /\ napp' = [napp EXCEPT ![t] = @ + 1]
    /\ appended' = [appended EXCEPT ![t] = Append(@, v)]
    /\ UNCHANGED <<lifeVars, tries>>
    /\ UNCHANGED <<mutex_, cfgVars, timeVars, fileVars, envVars, stdout,
                   crashed, pc, callVars, arg, requested, handoffs, nops>>

\* a builder that hands its text over and stays in use
BuilderDestroyKeeps(t) ==
    /\ ~crashed /\ pc[t] = "accum" /\ handoffs[t] = 0
    /\ handoffs' = [handoffs EXCEPT ![t] = @ + 1]
    /\ Log(t, 0, stream[t].level, CStr(stream[t].buffer),
           [file |-> stream[t].file, line |-> stream[t].line], "accum")
    /\ UNCHANGED <<lifeVars, tries, appended>>
    /\ UNCHANGED <<mutex_, cfgVars, timeVars, fileVars, envVars, stdout,
                   crashed, tnow, arg, stream, napp, requested, nops>>

\* LogStream::~LogStream at the end of the full expression
BuilderDestroy(t) ==
    /\ ~crashed /\ pc[t] = "accum"
    /\ handoffs' = [handoffs EXCEPT ![t] = @ + 1]
    /\ stream' = [stream EXCEPT ![t] = NoStream]
    /\ napp' = [napp EXCEPT ![t] = 0]
    /\ appended' = [appended EXCEPT ![t] = <<>>]
    /\ Log(t, 0, stream[t].level, CStr(stream[t].buffer),
           [file |-> stream[t].file, line |-> stream[t].line], "idle")
    /\ UNCHANGED <<lifeVars, tries>>
    /\ UNCHANGED <<mutex_, cfgVars, timeVars, fileVars, envVars, stdout,
                   crashed, tnow, arg, requested, nops>>

\* ------------------------------------------------------------ the singleton
\* an initialisation test without the guard of the function-local static:
\* a thread that arrives during the construction constructs as well
FirstAccessUnguarded(st) == st \in {"none", "init"}

\* whether control passes the declaration `static Logger instance` for the
\* first time
FirstAccess(st) == st = "none"

\* Logger::getInstance: the first thread through the declaration runs the
\* constructor, a thread that arrives during the construction waits, and
\* afterwards the call returns the object
GetInstance(t) ==
    /\ ~crashed /\ pc[t] = "idle"
    /\ IF FirstAccess(instance)
       THEN /\ instance' = "init"
            /\ pc' = [pc EXCEPT ![t] = "ctor"]
            /\ UNCHANGED <<nctor, res>>
       ELSE /\ instance = "live"
            /\ res' = [res EXCEPT ![t] = [op |-> "getInstance", val |-> nctor]]
            /\ UNCHANGED <<instance, nctor, pc>>
    /\ UNCHANGED <<tries, appended, mutex_, cfgVars, timeVars, fileVars, envVars, stdout,
                   crashed, callVars, arg, builderVars, nops>>

\* Logger::Logger, and the return of the getInstance call that ran it
LoggerCtor(t) ==
    /\ ~crashed /\ pc[t] = "ctor"
    /\ mutex_' = 0
    /\ level_' = INFO
    /\ console_' = TRUE
    /\ fileEnabled_' = FALSE
    /\ baseFilePath_' = <<>>
    /\ fileHandle_' = NULL
    /\ fileOpenTime_' = 0
    /\ lastTime_' = 0
    /\ timeStr_' = ""
    /\ nctor' = nctor + 1
    /\ instance' = "live"
    /\ res' = [res EXCEPT ![t] = [op |-> "getInstance", val |-> nctor + 1]]
    /\ pc' = [pc EXCEPT ![t] = "idle"]
    /\ UNCHANGED <<tries, appended>>
    /\ UNCHANGED <<openFiles, fs, envVars, stdout, crashed, callVars, arg,
                   builderVars, nops>>

\* Logger::~Logger, run once when the process exits after its threads have
\* finished their calls
LoggerDtor ==
    /\ ~crashed /\ instance = "live"
    /\ \A t \in Threads : pc[t] = "idle"
    /\ LET S == closeLogFile(FileState)
       IN SetFileState(S) /\ crashed' = S.ub
    /\ instance' = "gone"
    /\ UNCHANGED <<nctor, res, tries, appended>>
    /\ UNCHANGED <<mutex_, cfgVars, timeVars, envVars, stdout, pc,
                   callVars, arg, builderVars, nops>>

\* ------------------------------------------------------------ environment
\* the wall clock advances by 24 hours or by 24 hours and a second
Tick(d) ==
    /\ ~crashed /\ nops < MaxOps
    /\ now' = now + d
    /\ nops' = nops + 1
    /\ UNCHANGED <<lifeVars, tries, appended>>
    /\ UNCHANGED <<mutex_, cfgVars, timeVars, fileVars, nrvo, stdout, crashed,
                   pc, callVars, arg, builderVars>>

\* ------------------------------------------------------- the specifications
\* the steps inside log, common to every specification
LogSteps ==
    \/ \E t \in Threads : LogFilter(t)
    \/ \E t \in Threads : LogAcquire(t)
    \/ \E t \in Threads : LogConsole(t)
    \/ \E t \in Threads : LogFile(t)
    \/ \E t \in Threads : LogFprintf1(t)
    \/ \E t \in Threads : LogFprintf2(t)
    \/ \E t \in Threads : LogFflush(t)
    \/ \E t \in Threads : LogUnlock(t)

\* The sink manager under concurrent callers: log calls with text messages,
\* the three configuration calls and the clock.
Next ==
    \/ \E t \in Threads, l \in LogLevel, m \in Msgs : LogCall(t, l, m)
    \/ LogSteps
    \/ \E t \in Threads, l \in LogLevel : SetLevel(t, l)
    \/ \E t \in Threads, b \in BOOLEAN : SetConsoleEnter(t, b)
    \/ \E t \in Threads : SetConsoleBody(t)
    \/ \E t \in Threads, b \in BOOLEAN, p \in Paths : SetFileEnter(t, b, p)
    \/ \E t \in Threads : SetFileBody(t)
    \/ \E d \in {RotationPeriod, RotationPeriod + 1} : Tick(d)

Init == Start(TRUE)

Spec == Init /\ [][Next]_vars

\* The client surface, with the console as the only sink: one thread (a
\* builder is never shared) obtains builders from the five entry points,
\* appends to them and lets them go, calls log directly with the null pointer
\* as the message, and changes the threshold.
ClientThread == CHOOSE t \in Threads : \A u \in Threads : t <= u

NextClient ==
    \/ nops < MaxClientOps /\ \E e \in Entries : BuilderNew(ClientThread, e)
    \/ \E v \in Vals : BuilderAppend(ClientThread, v)
    \/ BuilderDestroy(ClientThread)
    \/ nops < MaxClientOps
          /\ \E l \in LogLevel : LogCall(ClientThread, l, NullPtr)
    \/ LogFilter(ClientThread)
    \/ LogAcquire(ClientThread)
    \/ LogConsole(ClientThread)
    \/ LogFile(ClientThread)
    \/ LogUnlock(ClientThread)
    \/ nops < MaxClientOps /\ \E l \in LogLevel : SetLevel(ClientThread, l)

InitClient == \E elide \in BOOLEAN : Start(elide)

SpecClient == InitClient /\ [][NextClient]_vars

\* the process before the first getInstance: the static storage of the
\* instance is zero-initialised, nothing is constructed
Unbuilt ==
    /\ mutex_ = 0
    /\ level_ = DEBUG
    /\ console_ = FALSE
    /\ fileEnabled_ = FALSE
    /\ baseFilePath_ = <<>>
    /\ fileHandle_ = NULL
    /\ fileOpenTime_ = 0
    /\ lastTime_ = 0
    /\ timeStr_ = ""
    /\ now = StartTime
    /\ openFiles = <<>>
    /\ fs = <<>>
    /\ stdout = <<>>
    /\ crashed = FALSE
    /\ nrvo = TRUE
    /\ pc = [t \in Threads |-> "idle"]
    /\ rec = [t \in Threads |-> NoRec]
    /\ ret = [t \in Threads |-> "idle"]
    /\ tnow = [t \in Threads |-> 0]
    /\ arg = [t \in Threads |-> NoArg]
    /\ stream = [t \in Threads |-> NoStream]
    /\ requested = [t \in Threads |-> 0]
    /\ handoffs = [t \in Threads |-> 0]
    /\ napp = [t \in Threads |-> 0]
    /\ nops = 0
    /\ instance = "none"
    /\ nctor = 0
    /\ res = [t \in Threads |-> NoRes]
    /\ tries = [t \in Threads |-> 0]
    /\ appended = [t \in Threads |-> <<>>]

\* The life of the singleton: threads make their first access, use the
\* file sink through the instance while it is alive, and the process exits.
NextLife ==
    \/ \E t \in Threads : GetInstance(t)
    \/ \E t \in Threads : LoggerCtor(t)
    \/ instance = "live"
          /\ \E t \in Threads, b \in BOOLEAN, filePath \in Paths :
                SetFileEnter(t, b, filePath)
    \/ \E t \in Threads : SetFileBody(t)
    \/ instance = "live"
          /\ \E t \in Threads, m \in Msgs : LogCall(t, INFO, m)
    \/ LogSteps
    \/ LoggerDtor

SpecLife == Unbuilt /\ [][NextLife]_vars

\* The appends: one thread requests a builder from each entry point, appends
\* values of every overload to it, also when it is nearly or wholly full,
\* and lets it go.
NextBuilder ==
    \/ nops < MaxBuilds /\ \E e \in Entries : BuilderNew(ClientThread, e)
    \/ \E v \in AllVals : BuilderAppend(ClientThread, v)
    \/ BuilderDestroy(ClientThread)
    \/ LogFilter(ClientThread)
    \/ LogAcquire(ClientThread)
    \/ LogConsole(ClientThread)
    \/ LogFile(ClientThread)
    \/ LogUnlock(ClientThread)

SpecBuilder == InitClient /\ [][NextBuilder]_vars

\* The clock within a day: two threads log and switch the file on and off
\* while the wall clock advances by a second or by a day and a second.
NextTime ==
    \/ \E t \in Threads, l \in LogLevel, m \in Msgs : LogCall(t, l, m)
    \/ \E t \in Threads, b \in BOOLEAN, filePath \in Paths :
          SetFileEnter(t, b, filePath)
    \/ \E t \in Threads : SetFileBody(t)
    \/ \E d \in {1, RotationPeriod + 1} : Tick(d)
    \/ LogSteps

SpecTime == Init /\ [][NextTime]_vars

\* Builders next to calls that hold the mutex: two threads obtain builders,
\* append to them and let them go, log directly and switch the console, in a
\* build that elides the copy in fatal or does not.
NextShared ==
    \/ nops < MaxSharedOps
          /\ \E t \in Threads, e \in Entries : BuilderNew(t, e)
    \/ \E t \in Threads, v \in Vals : BuilderAppend(t, v)
    \/ \E t \in Threads : BuilderDestroy(t)
    \/ nops < MaxSharedOps
          /\ \E t \in Threads, l \in LogLevel, m \in Msgs : LogCall(t, l, m)
    \/ \E t \in Threads : LogFilter(t)
    \/ \E t \in Threads : LogAcquire(t)
    \/ \E t \in Threads : LogConsole(t)
    \/ \E t \in Threads : LogFile(t)
    \/ \E t \in Threads : LogUnlock(t)
    \/ nops < MaxSharedOps
          /\ \E t \in Threads, b \in BOOLEAN : SetConsoleEnter(t, b)
    \/ \E t \in Threads : SetConsoleBody(t)

SpecShared == InitClient /\ [][NextShared]_vars

\* Fair scheduling: two threads log directly and through builders and
\* change the configuration; a thread that is inside a call of the facility
\* and can take its next step eventually takes it.  When a caller lets its
\* builder go is up to the caller.
Inside(t) ==
    \/ LogFilter(t)
    \/ LogAcquire(t)
    \/ LogConsole(t)
    \/ LogFile(t)
    \/ LogFprintf1(t)
    \/ LogFprintf2(t)
    \/ LogFflush(t)
    \/ LogUnlock(t)
    \/ SetConsoleBody(t)
    \/ SetFileBody(t)

NextFair ==
    \/ nops < MaxFairOps
          /\ \E t \in Threads, l \in LogLevel, m \in Msgs : LogCall(t, l, m)
    \/ nops < MaxFairOps
          /\ \E t \in Threads, e \in Entries : BuilderNew(t, e)
    \/ \E t \in Threads : BuilderDestroy(t)
    \/ nops < MaxFairOps
          /\ \E t \in Threads, l \in LogLevel : SetLevel(t, l)
    \/ nops < MaxFairOps
          /\ \E t \in Threads, b \in BOOLEAN : SetConsoleEnter(t, b)
    \/ nops < MaxFairOps
          /\ \E t \in Threads, b \in BOOLEAN, filePath \in Paths :
                SetFileEnter(t, b, filePath)
    \/ \E t \in Threads : Inside(t)

SpecFair ==
    Init /\ [][NextFair]_vars /\ \A t \in Threads : WF_vars(Inside(t))

\* The threshold accessors next to calls that hold the mutex: two threads
\* set and read the threshold, log to the console and switch the console.
NextLevel ==
    \/ \E t \in Threads, l \in LogLevel : SetLevel(t, l)
    \/ \E t \in Threads : GetLevel(t)
    \/ \E t \in Threads, l \in LogLevel, m \in Msgs : LogCall(t, l, m)
    \/ \E t \in Threads : LogFilter(t)
    \/ \E t \in Threads : LogAcquire(t)
    \/ \E t \in Threads : LogConsole(t)
    \/ \E t \in Threads : LogFile(t)
    \/ \E t \in Threads : LogUnlock(t)
    \/ \E t \in Threads, b \in BOOLEAN : SetConsoleEnter(t, b)
    \/ \E t \in Threads : SetConsoleBody(t)

SpecLevel == Init /\ [][NextLevel]_vars

\* The naming of the day file: one thread enables the file sink on each of
\* the base paths, logs, and lets the clock pass a rotation.
NextNaming ==
    \/ nops < MaxNameOps
          /\ \E filePath \in NamePaths :
                SetFileEnter(ClientThread, TRUE, filePath)
    \/ SetFileBody(ClientThread)
    \/ nops < MaxNameOps /\ \E m \in Msgs : LogCall(ClientThread, INFO, m)
    \/ LogFilter(ClientThread)
    \/ LogAcquire(ClientThread)
    \/ LogConsole(ClientThread)
    \/ LogFile(ClientThread)
    \/ LogFprintf1(ClientThread)
    \/ LogFprintf2(ClientThread)
    \/ LogFflush(ClientThread)
    \/ LogUnlock(ClientThread)
    \/ nops < MaxNameOps
          /\ \E d \in {RotationPeriod, RotationPeriod + 1} : Tick(d)

SpecNaming == Init /\ [][NextNaming]_vars

\* ================================================================ claims
\* positions of a thread between the filter of log and its return
Locked == {"log_console", "log_file", "log_fprintf1", "log_fprintf2",
           "log_fflush", "log_unlock"}
InLog == Locked \cup {"log_filter", "log_lock"}

\* the pieces in a file or in the buffer of a FILE, with their place
FilePieces ==
    UNION {{<<p, i>> : i \in 1..Len(fs[p])} : p \in DOMAIN fs}
BufPieces ==
    UNION {{<<h, i>> : i \in 1..Len(openFiles[h].buf)} : h \in DOMAIN openFiles}

\* console lines of record id
ConsoleLines(id) == {i \in DOMAIN stdout : stdout[i].id = id}

\* complete lines of record id in the files: a head directly followed by the
\* tail of the same record
FileLines(id) ==
    {x \in FilePieces :
        /\ fs[x[1]][x[2]].id = id /\ fs[x[1]][x[2]].part = "head"
        /\ x[2] < Len(fs[x[1]])
        /\ fs[x[1]][x[2] + 1].id = id /\ fs[x[1]][x[2] + 1].part = "tail"}

\* all pieces of record id, in files and in buffers
PiecesOf(id) ==
    {x \in FilePieces : fs[x[1]][x[2]].id = id}
PendingOf(id) ==
    {x \in BufPieces : openFiles[x[1]].buf[x[2]].id = id}

\* the records that left a trace in a sink
SeenIds ==
    {stdout[i].id : i \in DOMAIN stdout}
      \cup {fs[x[1]][x[2]].id : x \in FilePieces}
      \cup {openFiles[x[1]].buf[x[2]].id : x \in BufPieces}

\* the file channel is enabled and open
FileOn == fileEnabled_ /\ fileHandle_ # NULL

\* ---- C1
C1_FilterStep ==
    \A t \in Threads :
        (pc[t] = "log_filter" /\ pc'[t] # "log_filter") =>
            IF rec[t].level >= level_
            THEN pc'[t] = "log_lock"
            ELSE pc'[t] = ret[t] /\ UNCHANGED <<stdout, fs, openFiles>>

C1_Emitted ==
    \A t \in Threads :
        pc[t] = "log_unlock" =>
            /\ rec[t].level >= rec[t].thr
            /\ Cardinality(ConsoleLines(rec[t].id)) = (IF console_ THEN 1 ELSE 0)
            /\ Cardinality(FileLines(rec[t].id)) = (IF FileOn THEN 1 ELSE 0)

C1_Once ==
    \A id \in SeenIds :
        /\ Cardinality(ConsoleLines(id)) <= 1
        /\ Cardinality(PiecesOf(id)) + Cardinality(PendingOf(id)) <= 2

\* C1: monotonic filter law.  A call of log at severity S goes on to the
\* locked part iff S >= the threshold its filter reads, and otherwise returns
\* with nothing written; a call that went on has, when it is about to return,
\* exactly one console line if the console is on (else none) and exactly one
\* complete file line if the file is enabled and open (else none); no record
\* ever has more than one line on a channel.
FilterLaw == [](C1_Emitted /\ C1_Once) /\ [][C1_FilterStep]_vars

\* a Warning record passed the threshold Warning and, the console being off,
\* is in the file only
FilterLawWitness ==
    \E t \in Threads :
        /\ pc[t] = "log_unlock" /\ rec[t].level = WARNING
        /\ rec[t].thr = WARNING /\ ~console_
        /\ Cardinality(FileLines(rec[t].id)) = 1
        /\ Cardinality(ConsoleLines(rec[t].id)) = 0

\* ---- C2
\* a file holds complete lines only: each head is directly followed by the
\* tail of the same record
CompleteLines(content) ==
    /\ Len(content) % 2 = 0
    /\ \A i \in 1..Len(content) :
         IF i % 2 = 1
         THEN content[i].part = "head" /\ content[i + 1].id = content[i].id
         ELSE content[i].part = "tail"

\* the buffer of a FILE holds nothing, or the line of the one record that is
\* being written
OneLineBuffer(buf) ==
    /\ Len(buf) <= 2
    /\ Len(buf) >= 1 => buf[1].part = "head"
    /\ Len(buf) = 2 => buf[2].part = "tail" /\ buf[2].id = buf[1].id
    /\ Len(buf) >= 1 =>
         \E t \in Threads : pc[t] \in {"log_fprintf2", "log_fflush"}
                            /\ rec[t].id = buf[1].id

C2_Files ==
    /\ \A p \in DOMAIN fs : CompleteLines(fs[p])
    /\ \A h \in DOMAIN openFiles : OneLineBuffer(openFiles[h].buf)
    /\ \A id \in SeenIds : Cardinality(FileLines(id)) <= 1

\* a call that wrote to the file returns with its line flushed to a file
C2_NoLoss ==
    \A t \in Threads :
        (pc[t] = "log_fflush" /\ pc'[t] = "log_unlock") =>
            (Cardinality(FileLines(rec[t].id)) = 1)'

\* files only grow at their end
C2_AppendOnly ==
    \A p \in DOMAIN fs :
        /\ p \in DOMAIN fs'
        /\ Len(fs'[p]) >= Len(fs[p])
        /\ SubSeq(fs'[p], 1, Len(fs[p])) = fs[p]

\* C2: concurrent writers.  Whatever the interleaving of the threads, every
\* file consists of complete lines, each the head and tail of one record (no
\* two records interleave), no record has more than one line, every call that
\* wrote to the file has exactly one line in a file when it returns, and
\* lines once written are never removed or changed: the file holds exactly
\* one line per record emitted to it.
ConcurrentWriters == []C2_Files /\ [][C2_NoLoss /\ C2_AppendOnly]_vars

\* one file holds three complete lines, written by two different threads
ConcurrentWritersWitness ==
    \E p \in DOMAIN fs :
        /\ Len(fs[p]) = 6 /\ CompleteLines(fs[p])
        /\ \E i, j \in 1..Len(fs[p]) : fs[p][i].id[1] # fs[p][j].id[1]

\* ---- C4
\* all pieces of record id that reached a file are one complete line of one
\* file, and the pieces still buffered wait in the FILE that is open now
WholeIn(id) ==
    LET P == PiecesOf(id)
        B == PendingOf(id)
    IN /\ P # {} => B = {} /\ P \subseteq
                      UNION {{x, <<x[1], x[2] + 1>>} : x \in FileLines(id)}
       /\ P # {} => Cardinality(FileLines(id)) = 1
       /\ \A x \in B : x[1] = fileHandle_

\* C4: no record is split across two files.  In every reachable state, also
\* while threads write on both sides of a rotation, the pieces of a record
\* lie in one file as one complete line, or are all still in the buffer of
\* the currently open FILE; no file ends with or contains a partial line.
NoSplitRecord ==
    /\ \A id \in SeenIds : WholeIn(id)
    /\ \A p \in DOMAIN fs : CompleteLines(fs[p])

\* after a rotation: two day files exist, each with a complete line, written
\* by different threads
NoSplitRecordWitness ==
    \E p, q \in DOMAIN fs :
        /\ p # q /\ Len(fs[p]) = 2 /\ Len(fs[q]) = 2
        /\ fs[p][1].id[1] # fs[q][1].id[1]
        /\ baseFilePath_ # <<>>
        /\ p = FinalPath(baseFilePath_, StartTime)
        /\ q = FinalPath(baseFilePath_, now)

\* ---- C5
\* the file-block step of a call that found the file enabled and open: more
\* than 24 hours after the open time it closes the stale FILE and opens the
\* day file of the current time, resets the open time and goes on to write;
\* when the system refuses the open it leaves no FILE and writes nothing;
\* within 24 hours it leaves the file as it is and goes on to write
C5_RotationStep ==
    \A t \in Threads :
        (pc[t] = "log_file" /\ pc'[t] # "log_file" /\ FileOn) =>
            IF tnow[t] - fileOpenTime_ > RotationPeriod
            THEN /\ DOMAIN openFiles' \subseteq {fileHandle_'}
                 /\ fs'[openFiles[fileHandle_].path] =
                      fs[openFiles[fileHandle_].path]
                        \o openFiles[fileHandle_].buf
                 /\ fileHandle_' # NULL =>
                      /\ openFiles'[fileHandle_'] =
                           [path |-> FinalPath(baseFilePath_, now),
                            buf |-> <<>>]
                      /\ fileOpenTime_' = now
                      /\ pc'[t] = "log_fprintf1"
                 /\ fileHandle_' = NULL =>
                      /\ DOMAIN openFiles' = {}
                      /\ fileOpenTime_' = fileOpenTime_
                      /\ pc'[t] = "log_unlock"
            ELSE UNCHANGED fileVars /\ pc'[t] = "log_fprintf1"

\* the open FILE is the day file of the open time, and a call that wrote has
\* its line in that file
C5_CurrentFile ==
    /\ fileHandle_ # NULL =>
         /\ fileHandle_ \in DOMAIN openFiles
         /\ openFiles[fileHandle_].path =
              FinalPath(baseFilePath_, fileOpenTime_)
    /\ \A t \in Threads :
         (pc[t] = "log_unlock" /\ FileOn) =>
             \E x \in FileLines(rec[t].id) :
                 x[1] = FinalPath(baseFilePath_, fileOpenTime_)

\* every write goes to the FILE that is open now
C5_WritesToCurrent ==
    \A h \in DOMAIN openFiles :
        (h \in DOMAIN openFiles' /\ Len(openFiles'[h].buf) > Len(openFiles[h].buf))
            => (h = fileHandle_ /\ h = fileHandle_')

\* C5: time-based rotation.  A log call that passed the filter with the file
\* enabled and open, more than 24 hours after the file-open timestamp, closes
\* the stale handle and reopens the day file of the current time before it
\* writes, and the timestamp becomes the current time; its record and every
\* later write go to the handle that is open then; a call within 24 hours of
\* the timestamp (exactly 24 hours included) does not rotate.
Rotation ==
    []C5_CurrentFile /\ [][C5_RotationStep /\ C5_WritesToCurrent]_vars

\* a call rotated and wrote: its line is in the day file of the new open
\* time, and the file of the earlier day is still there
RotationWitness ==
    \E t \in Threads :
        /\ pc[t] = "log_unlock" /\ FileOn
        /\ fileOpenTime_ > StartTime + RotationPeriod
        /\ \E x \in FileLines(rec[t].id) :
               x[1] = FinalPath(baseFilePath_, fileOpenTime_)
        /\ FinalPath(baseFilePath_, StartTime) \in DOMAIN fs

\* ---- C6
\* C6: self-healing of the file sink.  A log call that passed the filter and
\* finds file logging enabled with a non-empty base path but no open handle
\* makes a re-open attempt: its file block can end with a handle open.
SelfHealing ==
    \A t \in Threads :
        (pc[t] = "log_file" /\ fileEnabled_ /\ baseFilePath_ # <<>>
           /\ fileHandle_ = NULL)
          => ENABLED (LogFile(t) /\ fileHandle_' # NULL)

\* ---- C7
\* C7: at most one file handle is open at any time.  In every reachable
\* state the C library holds no FILE other than the one fileHandle_ points
\* to, and none when fileHandle_ is null: every open by setFile or by a
\* rotation closed the previous FILE first.
OneHandle ==
    /\ Cardinality(DOMAIN openFiles) <= 1
    /\ DOMAIN openFiles = (IF fileHandle_ = NULL THEN {} ELSE {fileHandle_})

\* the sink was opened on a second file after a first one, and one FILE is
\* open
OneHandleWitness ==
    /\ Cardinality(DOMAIN fs) >= 2
    /\ fileHandle_ # NULL
    /\ Cardinality(DOMAIN openFiles) = 1

\* ---- C8
\* the return of a setFile that does not enable with a non-empty path
C8_Returns(t) ==
    /\ pc[t] = "sf_body" /\ pc'[t] = "idle"
    /\ ~arg[t].b \/ arg[t].path = <<>>

\* C8 as stated: setFile with enabled=false or with an empty path leaves no
\* handle open and the file-enabled flag off.
SetFileClearsState ==
    [][\A t \in Threads :
          C8_Returns(t) =>
              /\ fileHandle_' = NULL /\ DOMAIN openFiles' = {}
              /\ ~fileEnabled_']_vars

\* such a setFile leaves no handle open, and the flag as its argument says
C8_CloseStep ==
    \A t \in Threads :
        C8_Returns(t) =>
            /\ fileHandle_' = NULL /\ DOMAIN openFiles' = {}
            /\ fileEnabled_' = arg[t].b
            /\ baseFilePath_' = arg[t].path

\* while no handle is open nothing is written to any file, and a handle is
\* opened by nothing but a setFile that enables with a non-empty path
C8_Quiet ==
    fileHandle_ = NULL =>
        /\ \A p \in DOMAIN fs : p \in DOMAIN fs' /\ fs'[p] = fs[p]
        /\ (fileHandle_' # NULL \/ fs' # fs) =>
             \E t \in Threads : /\ pc[t] = "sf_body" /\ pc'[t] = "idle"
                                /\ arg[t].b /\ arg[t].path # <<>>

\* C8: setFile with enabled=false, or with an empty path, closes any open
\* handle: afterwards no handle is open, the file-enabled flag equals the
\* enabled argument (it stays on after setFile(true, "")), and log calls
\* write nothing to any file until a setFile enables with a non-empty path.
SetFileCloses == [][C8_CloseStep /\ C8_Quiet]_vars

\* after setFile(true, "") closed an open file, a log call went through: the
\* flag is on, no handle is open, and the call has no line in any file
SetFileClosesWitness ==
    \E t \in Threads :
        /\ pc[t] = "log_unlock"
        /\ fileEnabled_ /\ baseFilePath_ = <<>> /\ fileHandle_ = NULL
        /\ DOMAIN fs # {}
        /\ FileLines(rec[t].id) = {}

\* ---- C9
\* the return of a setFile(true, path) whose open was refused
C9_RefusedStep ==
    \A t \in Threads :
        (/\ pc[t] = "sf_body" /\ pc'[t] # "sf_body"
         /\ arg[t].b /\ arg[t].path # <<>> /\ fileHandle_' = NULL) =>
            /\ pc'[t] = "idle" /\ ~crashed' /\ mutex_' = 0
            /\ DOMAIN openFiles' = {}
            /\ stdout' = stdout

\* a log call that finds the file enabled on a path but not open has written
\* its console line when the console is on, and goes on to return
C9_Console ==
    \A t \in Threads :
        (/\ pc[t] \in {"log_file", "log_unlock"}
         /\ fileEnabled_ /\ baseFilePath_ # <<>> /\ fileHandle_ = NULL) =>
            /\ ~crashed
            /\ Cardinality(ConsoleLines(rec[t].id)) = (IF console_ THEN 1 ELSE 0)
            /\ pc[t] = "log_unlock" => ENABLED LogUnlock(t)

\* C9: setFile(true, path) on a path that cannot be opened returns normally:
\* no fault, the mutex released, no handle open, nothing printed; a following
\* log call that passes the filter with the console on still writes its
\* console line and returns.
RefusedOpenDegrades == []C9_Console /\ [][C9_RefusedStep]_vars

\* no file was ever opened: the open of setFile(true, path) was refused, and
\* the log call that followed wrote its console line
RefusedOpenDegradesWitness ==
    \E t \in Threads :
        /\ pc[t] = "log_unlock" /\ console_
        /\ fileEnabled_ /\ baseFilePath_ # <<>> /\ fileHandle_ = NULL
        /\ DOMAIN fs = {}
        /\ Cardinality(ConsoleLines(rec[t].id)) = 1

\* ---- C3
\* C3: every builder request leads to exactly one hand-off to log, made when
\* the builder goes out of scope: none while the caller's builder is alive,
\* exactly one once it is gone, never more than one, for each of the five
\* entry points.
HandoffExactlyOnce ==
    \A t \in Threads :
        /\ stream[t].live => handoffs[t] = 0
        /\ (requested[t] = 1 /\ ~stream[t].live) => handoffs[t] = 1
        /\ handoffs[t] <= 1

\* ---- C10
\* C10: no operation reaches an error or abort state, whatever its input: a
\* null message, a null appended text, an empty text.
NeverFaults == ~crashed

\* ---- C11
\* the position of the last c in p, 0 when there is none
LastIn(p, c) ==
    LET at == {i \in 1..Len(p) : p[i] = c}
    IN IF at = {} THEN 0 ELSE CHOOSE i \in at : \A j \in at : j <= i

\* the file name of a path: what follows its last directory separator
FileName(p) == SubSeq(p, LastIn(p, "/") + 1, Len(p))

\* the path names a file whose name does not begin with a dot
PlainName(p) == FileName(p) # <<>> /\ FileName(p)[1] # "."

\* the extension of the file name (without the dot), and the path before it
HasExtension(p) == LastIn(FileName(p), ".") # 0
Extension(p) ==
    SubSeq(FileName(p), LastIn(FileName(p), ".") + 1, Len(FileName(p)))
BeforeExtension(p) == SubSeq(p, 1, Len(p) - Len(Extension(p)) - 1)

\* -YYYYMMDD of the day of time t
DateOf(t) == <<"-", ToString(DayOf(t))>>

\* C11: rotation naming.  The file open for a base path whose file name has
\* the extension "log" is the path up to that extension, the date of the day
\* it was opened, and ".log"; for a base path whose file name has no
\* extension it is the whole base path, the date, and ".log"; whether it was
\* opened by setFile or by a rotation inside log.
RotationNaming ==
    (fileHandle_ # NULL /\ PlainName(baseFilePath_)) =>
        LET opened == openFiles[fileHandle_].path
            dotLog == <<".", "l", "o", "g">>
        IN /\ ~HasExtension(baseFilePath_) =>
                opened = baseFilePath_ \o DateOf(fileOpenTime_) \o dotLog
           /\ (HasExtension(baseFilePath_)
                 /\ Extension(baseFilePath_) = <<"l", "o", "g">>) =>
                opened = BeforeExtension(baseFilePath_)
                           \o DateOf(fileOpenTime_) \o dotLog

\* ---- C12
\* C12: the day file keeps the original extension.  The file open for a base
\* path whose file name has an extension is the path up to that extension,
\* the date of the day it was opened, a dot and that same extension.
KeepsExtension ==
    (fileHandle_ # NULL /\ PlainName(baseFilePath_)
       /\ HasExtension(baseFilePath_)) =>
        openFiles[fileHandle_].path =
            BeforeExtension(baseFilePath_) \o DateOf(fileOpenTime_)
              \o <<".">> \o Extension(baseFilePath_)

\* ---- C13
\* the console step writes the console line iff the console flag is on, and
\* leaves the file alone: nothing of the record is in a file or a FILE yet
C13_ConsoleFirst ==
    \A t \in Threads :
        (pc[t] = "log_console" /\ pc'[t] = "log_file") =>
            /\ PiecesOf(rec[t].id) = {} /\ PendingOf(rec[t].id) = {}
            /\ UNCHANGED fileVars
            /\ Cardinality(ConsoleLines(rec[t].id))' = (IF console_ THEN 1 ELSE 0)

\* while a call is at or past the file block it holds the mutex and its
\* console line is written or not as the console flag says; when it is about
\* to unlock, its file line is written iff the file is enabled and open, and
\* flushed: no FILE holds buffered bytes
C13_FileSecond ==
    \A t \in Threads :
        /\ pc[t] \in Locked => mutex_ = t
        /\ pc[t] \in Locked \ {"log_console"} =>
             Cardinality(ConsoleLines(rec[t].id)) = (IF console_ THEN 1 ELSE 0)
        /\ pc[t] = "log_unlock" =>
             /\ Cardinality(FileLines(rec[t].id)) = (IF FileOn THEN 1 ELSE 0)
             /\ Cardinality(PiecesOf(rec[t].id)) = (IF FileOn THEN 2 ELSE 0)
             /\ \A h \in DOMAIN openFiles : openFiles[h].buf = <<>>

\* C13: channel routing and order.  A record that passed the filter is
\* written to the console iff the console flag is on and to the file iff the
\* file is enabled and open, the console first and the file second while the
\* thread holds the mutex, and the file line is flushed to the file before
\* the mutex is released.
RoutingOrder == []C13_FileSecond /\ [][C13_ConsoleFirst]_vars

\* a call about to unlock wrote both channels
RoutingOrderWitness ==
    \E t \in Threads :
        /\ pc[t] = "log_unlock" /\ console_ /\ FileOn
        /\ Cardinality(ConsoleLines(rec[t].id)) = 1
        /\ Cardinality(FileLines(rec[t].id)) = 1

\* ---- C14
\* the ANSI colour of a severity, and the reset sequence
AnsiColour(level) ==
    CASE level = DEBUG -> "\\033[34m"
      [] level = INFO -> "\\033[32m"
      [] level = WARNING -> "\\033[33m"
      [] level = ERROR -> "\\033[31m"
AnsiReset == "\\033[0m"
Escapes == {AnsiColour(l) : l \in LogLevel} \cup {AnsiReset}
IsText(x) == x \notin Escapes
StripEscapes(line) == SelectSeq(line, IsText)

\* TIME [LEVEL] file:line - message\n
Layout(ts, name, file, line, text) ==
    <<ts, " [", name, "] ", file, ":", ToString(line), " - ">>
      \o text \o <<"\n">>
\* the same with the level name wrapped in colour and reset
ColouredLayout(ts, colour, name, file, line, text) ==
    <<ts, " [", colour, name, AnsiReset, "] ", file, ":", ToString(line),
      " - ">> \o text \o <<"\n">>

\* the text of the console line and of the file line of record id
ConsoleText(id) == stdout[CHOOSE i \in ConsoleLines(id) : TRUE].text
FileText(id) ==
    LET x == CHOOSE y \in FileLines(id) : TRUE
    IN fs[x[1]][x[2]].text \o fs[x[1]][x[2] + 1].text

\* C14: one layout on both channels.  The console line of a record is
\* "TIME [LEVEL] file:line - message\n" with the level name wrapped in the
\* colour of its severity and the reset sequence, its file line is the same
\* without colour, with the same time string, level name, file, line and
\* message: the console line stripped of the escape sequences is the file
\* line.
SameLayout ==
    \A t \in Threads :
        pc[t] = "log_unlock" =>
            LET r == rec[t]
                name == logLevelToString(r.level)
            IN /\ console_ =>
                    ConsoleText(r.id) =
                        ColouredLayout(timeStr_, AnsiColour(r.level), name,
                                       r.file, r.line, r.msg.s)
               /\ FileOn =>
                    FileText(r.id) =
                        Layout(timeStr_, name, r.file, r.line, r.msg.s)
               /\ (console_ /\ FileOn) =>
                    StripEscapes(ConsoleText(r.id)) = FileText(r.id)

\* a Warning record is on both channels, in yellow on the console
SameLayoutWitness ==
    \E t \in Threads :
        /\ pc[t] = "log_unlock" /\ console_ /\ FileOn
        /\ rec[t].level = WARNING
        /\ ConsoleText(rec[t].id)[3] = "\\033[33m"
        /\ StripEscapes(ConsoleText(rec[t].id)) = FileText(rec[t].id)

\* ---- C15
\* setLevel and getLevel can run whenever the thread is between calls, and
\* the filter of a log call below the threshold can run, whoever holds the
\* mutex
C15_NeverBlocked ==
    \A t \in Threads :
        /\ (pc[t] = "idle" /\ ~crashed) =>
             /\ ENABLED GetLevel(t)
             /\ nops < MaxOps => \A l \in LogLevel : ENABLED SetLevel(t, l)
        /\ (pc[t] = "log_filter" /\ rec[t].level < level_ /\ ~crashed) =>
             ENABLED LogFilter(t)

\* a step that sets or reads the threshold, and the step of a log call below
\* the threshold, complete the call and leave the mutex as it is
C15_NoLock ==
    /\ level_' # level_ => UNCHANGED <<mutex_, pc>>
    /\ \A t \in Threads :
         /\ res'[t] # res[t] => UNCHANGED <<mutex_, pc>>
         /\ (pc[t] = "log_filter" /\ rec[t].level < level_
               /\ pc'[t] # "log_filter") =>
                (pc'[t] = ret[t] /\ mutex_' = mutex_)

\* C15: setLevel, getLevel and a log call below the threshold never acquire
\* the mutex: each can take its step, and completes with that step, also
\* while another thread holds the mutex.
LockFreeThreshold == []C15_NeverBlocked /\ [][C15_NoLock]_vars

\* a thread is at the filter with a record below the threshold while the
\* other thread holds the mutex in the middle of its console write
LockFreeThresholdWitness ==
    \E t, u \in Threads :
        /\ t # u /\ mutex_ = u /\ pc[u] = "log_console"
        /\ pc[t] = "log_filter" /\ rec[t].level < level_
        /\ ENABLED LogFilter(t)

\* ---- C17
\* a getLevel step returns the threshold as it is, and the threshold changes
\* by nothing but a setLevel step, to the level passed
C17_Step ==
    /\ \A t \in Threads :
         (res'[t] # res[t] /\ res'[t].op = "getLevel") =>
             (res'[t].val = level_ /\ level_' = level_)
    /\ level_' # level_ =>
         \E t \in Threads, l \in LogLevel : SetLevel(t, l) /\ level_' = l

\* C17: threshold round trip.  getLevel returns the level passed to the most
\* recent setLevel (the threshold holds that level until the next setLevel
\* and getLevel returns the threshold), or the initial level; under every
\* interleaving of two threads the value returned is one of the four levels.
ThresholdRoundTrip ==
    [](\A t \in Threads : res[t].op = "getLevel" => res[t].val \in LogLevel)
      /\ [][C17_Step]_vars

\* getLevel returned Error, which a setLevel had stored
ThresholdRoundTripWitness ==
    \E t \in Threads :
        res[t].op = "getLevel" /\ res[t].val = ERROR /\ level_ = ERROR

\* ---- C16
\* C16: filtering performance invariant.  For a record below the threshold
\* no formatting and no output is done: while a builder of a severity below
\* the threshold is alive no value has been rendered into its buffer, and a
\* call of log below the threshold leaves the console as it was.
NoWorkWhenFiltered ==
    \A t \in Threads :
        /\ (stream[t].live /\ stream[t].level < level_) =>
               (stream[t].offset = 0 /\ stream[t].buffer = <<>>)
        /\ (pc[t] \in InLog /\ rec[t].level < level_) =>
               ConsoleLines(rec[t].id) = {}

\* ---- C18
\* at most one Logger is ever constructed, none before the first access and
\* exactly one from the end of the first construction on; at most one thread
\* is in the constructor; every getInstance returned the one object
C18_One ==
    /\ nctor <= 1
    /\ instance \in {"none", "init"} => nctor = 0
    /\ instance \in {"live", "gone"} => nctor = 1
    /\ Cardinality({t \in Threads : pc[t] = "ctor"}) =
         (IF instance = "init" THEN 1 ELSE 0)
    /\ \A t \in Threads : res[t].op = "getInstance" => res[t].val = 1

\* the object is constructed by a getInstance call and comes out of its
\* constructor with threshold Info, console on, file off, no handle open
C18_Initial ==
    nctor' # nctor =>
        /\ \E t \in Threads : pc[t] = "ctor" /\ res'[t].op = "getInstance"
        /\ level_' = INFO /\ console_' /\ ~fileEnabled_'
        /\ fileHandle_' = NULL /\ DOMAIN openFiles' = {}

\* C18: exactly one SinkState.  The Logger is constructed on the first
\* getInstance call and only there, exactly once also when two threads make
\* their first access together; every getInstance call returns that object;
\* its initial state is threshold Info, console enabled, file disabled, no
\* file handle open.
SingleInstance == []C18_One /\ [][C18_Initial]_vars

\* both threads obtained the instance, which was constructed once
SingleInstanceWitness ==
    /\ nctor = 1
    /\ \A t \in Threads : res[t].op = "getInstance" /\ res[t].val = 1

\* ---- C19
\* once the instance is torn down no handle is open, no FILE is left and
\* every file consists of complete lines
C19_Closed ==
    instance = "gone" =>
        /\ fileHandle_ = NULL /\ DOMAIN openFiles = {}
        /\ \A p \in DOMAIN fs : CompleteLines(fs[p])

\* a log call that wrote to the file has its line in the file when it
\* returns
C19_Written ==
    \A t \in Threads :
        (pc[t] = "log_unlock" /\ FileOn) =>
            Cardinality(FileLines(rec[t].id)) = 1

\* the teardown happens once and loses nothing: no step removes or changes
\* what a file holds, and nothing follows the teardown
C19_Step ==
    /\ instance = "gone" => UNCHANGED vars
    /\ \A p \in DOMAIN fs :
         /\ p \in DOMAIN fs'
         /\ SubSeq(fs'[p], 1, Len(fs[p])) = fs[p]

\* C19: teardown.  When the process exits the singleton is torn down once,
\* the handle open at that moment is flushed and closed, every record whose
\* log call returned before is in its file, and no handle remains open.
TeardownCloses == [](C19_Closed /\ C19_Written) /\ [][C19_Step]_vars

\* the process exited with the file sink open: the record logged before is
\* in the file
TeardownClosesWitness ==
    /\ instance = "gone" /\ fileEnabled_ /\ baseFilePath_ # <<>>
    /\ \E p \in DOMAIN fs : Len(fs[p]) = 2 /\ CompleteLines(fs[p])

\* ---- C20
\* the body of setConsole(b) makes the console flag b and changes nothing
\* else of the sink manager; where the flag is b already, as after a first
\* setConsole(b), it leaves the whole state of the sink manager as it is
C20_Assign ==
    \A t \in Threads :
        (pc[t] = "sc_body" /\ pc'[t] # "sc_body") =>
            /\ console_' = arg[t].b
            /\ UNCHANGED <<level_, fileEnabled_, baseFilePath_, timeVars,
                           fileVars, stdout>>
            /\ mutex_ = t /\ mutex_' = 0
            /\ console_ = arg[t].b => UNCHANGED <<cfgVars, timeVars, fileVars>>

\* the flag does not change while a log call holds the mutex, and the
\* console step of a log call writes a line iff the flag is on
C20_Used ==
    \A t \in Threads :
        /\ pc[t] \in Locked => console_' = console_
        /\ (pc[t] = "log_console" /\ pc'[t] = "log_file") =>
             Len(stdout') = Len(stdout) + (IF console_ THEN 1 ELSE 0)

\* C20: idempotence of setConsole.  setConsole(b) sets the console flag to
\* b and changes nothing else, so a second setConsole(b) leaves the whole
\* sink manager state as the first left it, for b true and false; every log
\* call that takes the mutex after setConsole released it writes its console
\* line according to the new value.
ConsoleIdempotent == [][C20_Assign /\ C20_Used]_vars

\* a second setConsole(false) is about to assign, the flag being off from
\* the first
ConsoleIdempotentWitness ==
    \E t \in Threads :
        pc[t] = "sc_body" /\ ~arg[t].b /\ ~console_ /\ nops >= 2

\* ---- C21
\* the free characters of a builder, the part of a text that fits into them,
\* and the buffer after that part is added
Room(b) == BUFFER_SIZE - 1 - b.offset
Fitting(b, text) == SubSeq(text, 1, Min(Len(text), Room(b)))
With(b, text) == b.buffer \o Fitting(b, text)

\* the builder of thread t has grown by text, as far as it fits
Grows(t, text) ==
    /\ stream'[t].buffer = With(stream[t], text)
    /\ stream'[t].offset = Len(stream'[t].buffer)
    /\ Room(stream[t]) >= Len(text) =>
         stream'[t].buffer = stream[t].buffer \o text

C21_Step ==
    \A t \in Threads :
        /\ BuilderAppend(t, BoolVal(TRUE)) => Grows(t, <<"t", "r", "u", "e">>)
        /\ BuilderAppend(t, BoolVal(FALSE)) =>
             Grows(t, <<"f", "a", "l", "s", "e">>)
        /\ BuilderAppend(t, CStrVal(NullPtr)) => stream'[t] = stream[t]
        /\ BuilderAppend(t, ManipVal("Endl")) => Grows(t, <<"\n">>)
        /\ BuilderAppend(t, ManipVal("Flush")) =>
             stream'[t] = Shl(stream[t], ManipVal("Endl"))

\* C21: append exactness for non-numeric values.  Appending true adds
\* exactly "true" and false exactly "false"; appending a null text pointer
\* adds nothing and leaves the builder as it is; appending the end-of-line
\* marker adds exactly one newline; the flush marker does what the
\* end-of-line marker does.
AppendExact == [][C21_Step]_vars

\* true and then the end-of-line marker were appended to an empty builder
AppendExactWitness ==
    \E t \in Threads :
        stream[t].live /\ stream[t].buffer = <<"t", "r", "u", "e", "\n">>

\* ---- C22
\* C22: fixed four decimals in full.  A floating-point value appended to a
\* builder that has room for its "%.4f" text adds that whole text: sign,
\* all integer digits, the point and four decimals.
FixedFourDecimals ==
    [][\A t \in Threads, f \in Floats :
          (BuilderAppend(t, FloatVal(f))
             /\ Room(stream[t]) >= Len(Fixed4(f))) =>
              stream'[t].buffer = stream[t].buffer \o Fixed4(f)]_vars

\* ---- C23
\* the text a value stands for
Rendered(v) ==
    CASE v.kind = "cstr" -> IF v.p.null THEN <<>> ELSE v.p.s
      [] v.kind = "string" -> v.p.s
      [] v.kind = "bool" -> IF v.b THEN <<"t", "r", "u", "e">>
                            ELSE <<"f", "a", "l", "s", "e">>
      [] v.kind = "char" -> <<v.c>>
      [] v.kind = "manip" -> IF v.m \in {"Endl", "Flush"} THEN <<"\n">>
                             ELSE <<>>
      [] v.kind = "int" -> ToChars(v.n)
      [] v.kind = "float" -> Fixed4(v.f)
      [] v.kind = "ptr" -> PointerText(v.p)

\* C23: capacity degrade.  Every append, of a value of every type, leaves
\* the buffer as the old content followed by the longest prefix of the
\* rendered text that fits the 4096-byte buffer, and never grows it.
CapacityDegrade ==
    [][\A t \in Threads, v \in AllVals :
          BuilderAppend(t, v) =>
              /\ stream'[t].buffer = With(stream[t], Rendered(v))
              /\ stream'[t].offset = Len(stream'[t].buffer)
              /\ stream'[t].offset <= BUFFER_SIZE - 1]_vars

\* ---- C24
\* "FATAL ERROR: "
FatalText ==
    <<"F", "A", "T", "A", "L", " ", "E", "R", "R", "O", "R", ":", " ">>

\* the builder an entry point returns: the matching severity and an empty
\* buffer; for fatal, Error and the buffer "FATAL ERROR: "
C24_Create ==
    \A t \in Threads :
        /\ BuilderNew(t, "debug") =>
             (stream'[t].level = DEBUG /\ stream'[t].buffer = <<>>)
        /\ BuilderNew(t, "info") =>
             (stream'[t].level = INFO /\ stream'[t].buffer = <<>>)
        /\ BuilderNew(t, "warning") =>
             (stream'[t].level = WARNING /\ stream'[t].buffer = <<>>)
        /\ BuilderNew(t, "error") =>
             (stream'[t].level = ERROR /\ stream'[t].buffer = <<>>)
        /\ BuilderNew(t, "fatal") =>
             (stream'[t].level = ERROR /\ stream'[t].buffer = FatalText)
        /\ \A e \in Entries :
             BuilderNew(t, e) =>
                 (stream'[t].live /\ stream'[t].offset = Len(stream'[t].buffer))

\* an append keeps what the buffer holds and adds the text of its value
\* behind it; the hand-off passes the buffer as the message
C24_Carry ==
    \A t \in Threads :
        /\ \A v \in Vals :
             BuilderAppend(t, v) =>
                 stream'[t].buffer = stream[t].buffer \o Rendered(v)
        /\ (pc[t] = "accum" /\ pc'[t] = "log_filter") =>
             (rec'[t].msg = CStr(stream[t].buffer)
                /\ rec'[t].level = stream[t].level)

\* C24: the entry points.  debug, info, warning and error return a builder
\* of the matching severity with an empty buffer; fatal returns a builder of
\* severity Error whose buffer is exactly "FATAL ERROR: "; appends add the
\* caller's text behind what the buffer holds and the hand-off passes the
\* buffer, so a fatal builder hands off "FATAL ERROR: " followed by the text
\* the caller appended.
EntryPoints == [][C24_Create /\ C24_Carry]_vars

\* the builder of fatal, with "x" appended by the caller, was handed off
EntryPointsWitness ==
    \E t \in Threads :
        /\ pc[t] \in InLog /\ ~stream[t].live
        /\ rec[t].level = ERROR
        /\ rec[t].msg = CStr(FatalText \o <<"x">>)

\* ---- C25
\* positions inside a call of the facility
Running == InLog \cup {"sc_body", "sf_body"}

\* C25: every operation runs to completion.  Under fair scheduling of two
\* threads that log, hand off builders and call setLevel, setConsole and
\* setFile, a thread inside a call eventually is outside it again (a thread
\* waiting for the mutex included), and a held mutex is eventually free.
RunsToCompletion ==
    /\ \A t \in Threads : (pc[t] \in Running) ~> (pc[t] \notin Running)
    /\ (mutex_ # 0) ~> (mutex_ = 0)

\* a thread waits for the mutex while the other holds it inside setFile
RunsToCompletionWitness ==
    \E t, u \in Threads :
        t # u /\ pc[t] = "log_lock" /\ mutex_ = u /\ pc[u] = "sf_body"

\* ---- C26
\* piece x starts a line stamped with a second of the day of `limit` that is
\* before `limit`
C26_Before(x, limit) ==
    \E s \in (DayOf(limit) * RotationPeriod)..(limit - 1) :
        x.part = "head" /\ x.text[1] = FormatTime(s)

\* thread t returns from a setFile(true, p) whose p is the base path already
\* set, and the day file of p exists
C26_Again(t) ==
    /\ pc[t] = "sf_body" /\ pc'[t] = "idle"
    /\ arg[t].b /\ arg[t].path # <<>> /\ arg[t].path = baseFilePath_
    /\ FinalPath(arg[t].path, now) \in DOMAIN fs

C26_Reopen(t) ==
    C26_Again(t) =>
        LET F == FinalPath(arg[t].path, now)
        IN /\ F \in DOMAIN fs'
           /\ Len(fs'[F]) >= Len(fs[F])
           /\ SubSeq(fs'[F], 1, Len(fs[F])) = fs[F]
           /\ fileHandle_' # NULL =>
                 /\ openFiles'[fileHandle_'].path = F
                 /\ openFiles'[fileHandle_'].buf = <<>>

\* C26: the day file is append-only.  A setFile(true, p) with the base path
\* already set, on a day whose file exists, opens that same file and leaves
\* what it holds in place, and no step of any call removes or changes what a
\* file holds: the records written before the re-enable stay in front of the
\* records written after it.
AppendOnlyReopen == [][C2_AppendOnly /\ \A t \in Threads : C26_Reopen(t)]_vars

\* setFile has returned with the day file of the base path open, and the
\* file holds a complete line written earlier the same day, before the file
\* was opened this time
AppendOnlyReopenWitness ==
    /\ fileHandle_ \in DOMAIN openFiles
    /\ \A t \in Threads : pc[t] = "idle"
    /\ LET F == openFiles[fileHandle_].path
       IN /\ F \in DOMAIN fs /\ CompleteLines(fs[F])
          /\ F = FinalPath(baseFilePath_, fileOpenTime_)
          /\ \E i \in 1..Len(fs[F]) : C26_Before(fs[F][i], fileOpenTime_)

\* ---- C30
\* the time string is changed only by a log call taking the lock in a second
\* other than the cached one, which formats that second; in the cached second
\* the call leaves the cache alone
C30_Refresh ==
    /\ \A t \in Threads :
          (pc[t] = "log_lock" /\ pc'[t] = "log_console") =>
              IF now # lastTime_
              THEN timeStr_' = FormatTime(now) /\ lastTime_' = now
              ELSE UNCHANGED timeVars
    /\ (timeVars' # timeVars) =>
          \E t \in Threads :
              pc[t] = "log_lock" /\ pc'[t] = "log_console" /\ now # lastTime_

\* the line a step of thread t writes carries the second t read under the lock
C30_Stamped ==
    \A t \in Threads :
        /\ (pc[t] = "log_console" /\ stdout' # stdout) =>
              stdout'[Len(stdout')].text[1] = FormatTime(tnow[t])
        /\ (pc[t] = "log_fprintf1" /\ pc'[t] = "log_fprintf2") =>
              \E h \in DOMAIN openFiles' :
                  LET B == openFiles'[h].buf
                  IN /\ B # <<>> /\ B[Len(B)].id = rec[t].id
                     /\ B[Len(B)].text[1] = FormatTime(tnow[t])

\* from the refresh step to the unlock the cache is of the second the call
\* read, and the call holds the mutex
C30_Fresh ==
    \A t \in Threads :
        pc[t] \in Locked =>
            /\ mutex_ = t
            /\ lastTime_ = tnow[t]
            /\ timeStr_ = FormatTime(tnow[t])

\* C30: the time cache.  log re-formats the cached time string iff the
\* wall-clock second it reads under the lock differs from the cached second;
\* from that step until the call unlocks the cached string is the one of the
\* second read; every console and file line carries that second, and a call
\* in the cached second writes with the string formatted before.
TimeCache == []C30_Fresh /\ [][C30_Refresh /\ C30_Stamped]_vars

\* two console lines share the stamp of one second, a third carries the next
\* second of the same day, and the call that wrote it still holds the lock
TimeCacheWitness ==
    /\ Len(stdout) = 3
    /\ stdout[1].text[1] = stdout[2].text[1]
    /\ stdout[2].text[1] = FormatTime(lastTime_ - 1)
    /\ stdout[3].text[1] = FormatTime(lastTime_)
    /\ DayOf(lastTime_ - 1) = DayOf(lastTime_)
    /\ \E t \in Threads : pc[t] \in Locked /\ stdout[3].id = rec[t].id

\* ---- C27
\* the members behind the mutex
Guarded == <<console_, fileEnabled_, baseFilePath_, fileHandle_,
             fileOpenTime_, lastTime_, timeStr_>>

\* the positions whose step reads or writes a member behind the mutex: the
\* bodies of setConsole and setFile and log from its console write on
Critical == Locked \cup {"sc_body", "sf_body"}

\* a thread at such a position holds the mutex, a thread elsewhere does not
C27_Holder ==
    \A t \in Threads :
        IF pc[t] \in Critical THEN mutex_ = t ELSE mutex_ # t

\* a member behind the mutex changes only in the step of one thread that
\* holds the mutex, or takes it in that very step (log reads the clock and
\* refreshes the time cache right behind its lock_guard)
C27_Writes ==
    (Guarded' # Guarded) =>
        \E t \in Threads :
            /\ pc'[t] # pc[t]
            /\ \A u \in Threads \ {t} : pc'[u] = pc[u]
            /\ \/ pc[t] \in Critical /\ mutex_ = t
               \/ pc[t] = "log_lock" /\ mutex_ = 0 /\ mutex_' = t

\* the threshold is written by a thread that holds no lock and takes none,
\* whoever holds the mutex
C27_Level ==
    (level_' # level_) =>
        /\ mutex_' = mutex_
        /\ \E t \in Threads : pc[t] = "idle" /\ pc'[t] = "idle" /\ mutex_ # t

\* C27: lock discipline.  In every interleaving of log, setConsole, setFile
\* and setLevel the console flag, the file-enabled flag, the base path, the
\* file handle, the file-open time and the time cache are accessed only by
\* the thread that holds the mutex; the threshold is accessed without it.
LockDiscipline == []C27_Holder /\ [][C27_Writes /\ C27_Level]_vars

\* the threshold was changed and the file enabled; one thread is in the
\* middle of its file write under the mutex, the other waits for the mutex
LockDisciplineWitness ==
    \E t, u \in Threads :
        /\ t # u /\ pc[t] = "log_lock"
        /\ pc[u] = "log_fprintf2" /\ mutex_ = u
        /\ fileEnabled_ /\ fileHandle_ # NULL /\ level_ # INFO

\* ---- C28
\* the Sink Manager: the members of the logger, the FILE objects, the files
\* and the console
Sink == <<mutex_, level_, console_, fileEnabled_, baseFilePath_, fileHandle_,
          fileOpenTime_, lastTime_, timeStr_, openFiles, fs, stdout>>

\* the step in which thread t obtains its builder
Constructs(t) == ~stream[t].live /\ stream'[t].live

\* the step in which thread t appends to its builder
Appends(t) == pc[t] = "accum" /\ napp'[t] = napp[t] + 1

\* construction and appends leave the Sink Manager as it is
C28_Frame ==
    \A t \in Threads : (Constructs(t) \/ Appends(t)) => UNCHANGED Sink

\* construction and appends wait for nothing: they can be taken whoever
\* holds the mutex
C28_NoLock ==
    \A t \in Threads :
        /\ (pc[t] = "accum" /\ napp[t] < MaxAppends) =>
              \A v \in Vals : ENABLED BuilderAppend(t, v)
        /\ (pc[t] = "idle" /\ nops < MaxSharedOps /\ ~crashed) =>
              \A e \in Entries : ENABLED BuilderNew(t, e)

\* while its builder is alive a thread changes the Sink Manager only inside
\* the log call made by the destructor of the builder local to fatal
C28_OnlyHandoff ==
    \A t \in Threads :
        (Sink' # Sink /\ pc'[t] # pc[t] /\ stream[t].live) =>
            pc[t] \in InLog /\ ret[t] = "accum" /\ handoffs[t] = 1

\* C28: constructing a builder and appending to it leave the Sink Manager
\* untouched.  The steps that construct a builder and that append to it
\* change no member of the logger, no FILE, no file and not the console, and
\* can be taken while another thread holds the mutex; a builder reaches the
\* Sink Manager only through the log call its destructor makes.
BuilderFrame == []C28_NoLock /\ [][C28_Frame /\ C28_OnlyHandoff]_vars

\* a thread has appended text to its builder while the other thread holds the
\* mutex in the middle of its console write, and nothing was printed yet
BuilderFrameWitness ==
    \E t, u \in Threads :
        /\ t # u /\ pc[t] = "accum" /\ napp[t] >= 1 /\ stream[t].offset > 0
        /\ mutex_ = u /\ pc[u] = "log_console"
        /\ stdout = <<>>

\* ---- C29
\* the state of the builder of thread t
Phase(t) ==
    IF stream[t].live THEN "Accumulating"
    ELSE IF pc[t] \in InLog /\ requested[t] = 1 THEN "Finalized"
    ELSE "Destroyed"

\* the transitions of the state machine
C29_Machine ==
    \A t \in Threads :
        <<Phase(t), Phase(t)'>> \in
            {<<"Destroyed", "Destroyed">>, <<"Destroyed", "Accumulating">>,
             <<"Accumulating", "Accumulating">>,
             <<"Accumulating", "Finalized">>, <<"Finalized", "Finalized">>,
             <<"Finalized", "Destroyed">>}

\* the builder changes when it is constructed, by an append while it is
\* alive and not handed off, and at its hand-off, which ends it; the
\* severity and the location stay as bound
C29_Steps ==
    \A t \in Threads :
        /\ (stream'[t] # stream[t]) =>
              \/ Constructs(t) /\ pc[t] = "idle"
              \/ Appends(t) /\ stream[t].live /\ stream'[t].live
              \/ pc[t] = "accum" /\ pc'[t] = "log_filter" /\ ~stream'[t].live
        /\ (stream[t].live /\ stream'[t].live) =>
              /\ stream'[t].level = stream[t].level
              /\ stream'[t].file = stream[t].file
              /\ stream'[t].line = stream[t].line

\* the hand-off of the builder of thread t passes the text of all its
\* appends with the severity and location of the builder, and is its end
C29_Handoff ==
    \A t \in Threads :
        (pc[t] = "accum" /\ pc'[t] # "accum") =>
            /\ pc'[t] = "log_filter" /\ ret'[t] = "idle"
            /\ handoffs'[t] = handoffs[t] + 1
            /\ rec'[t].level = stream[t].level
            /\ rec'[t].file = stream[t].file
            /\ rec'[t].line = stream[t].line
            /\ rec'[t].msg = CStr(stream[t].buffer)
            /\ ~stream'[t].live

\* a builder is alive while its thread accumulates, or while the builder
\* local to fatal is handed off in a build that does not elide the copy
C29_Alive ==
    \A t \in Threads :
        stream[t].live <=>
            \/ pc[t] = "accum"
            \/ pc[t] \in InLog /\ ret[t] = "accum"

\* C29: the state machine of a builder.  A builder is constructed, takes
\* N >= 0 appends, is handed off and is gone: the hand-off comes after all
\* its appends and carries their text with the severity and location bound
\* at construction, and no append reaches a builder after its hand-off.
BuilderMachine ==
    []C29_Alive /\ [][C29_Machine /\ C29_Steps /\ C29_Handoff]_vars

\* the log call of a hand-off has printed the two appends of a builder that
\* is gone
BuilderMachineWitness ==
    \E t \in Threads :
        /\ pc[t] = "log_file" /\ requested[t] = 1 /\ ~stream[t].live
        /\ rec[t].msg.s = <<"x", "\n">>
        /\ stdout # <<>> /\ stdout[Len(stdout)].id = rec[t].id

\* ---- C31
\* the filter of a call tests the record against the threshold stored last
\* and remembers it
C31_Current ==
    \A t \in Threads :
        (pc[t] = "log_filter" /\ pc'[t] # "log_filter") =>
            /\ (rec[t].level < level_) <=> (pc'[t] = ret[t])
            /\ (rec[t].level >= level_) <=>
                  (pc'[t] = "log_lock" /\ rec'[t].thr = level_)

\* a store of the threshold is in place when setLevel returns and stays
\* until the next store
C31_Stored ==
    (level_' # level_) =>
        \E t \in Threads, l \in LogLevel :
            pc[t] = "idle" /\ pc'[t] = "idle" /\ level_' = l /\ mutex_' = mutex_

\* past its filter a call goes on to the lock and to its console write,
\* whatever the threshold has become
C31_NotAgain ==
    \A t \in Threads :
        /\ (pc[t] = "log_lock" /\ pc'[t] # "log_lock") =>
              pc'[t] = "log_console"
        /\ (pc[t] = "log_console" /\ pc'[t] # "log_console") =>
              /\ pc'[t] = "log_file"
              /\ console_ =>
                    /\ Len(stdout') = Len(stdout) + 1
                    /\ stdout'[Len(stdout')].id = rec[t].id

\* C31: threshold visibility.  The filter of a log call compares the record
\* with the threshold of the last setLevel that returned before the filter
\* ran; a call that has passed its filter is not filtered again: it takes
\* the lock and writes its record even if the threshold was raised above
\* the record in between.
ThresholdVisibility == [][C31_Current /\ C31_Stored /\ C31_NotAgain]_vars

\* a record that passed the threshold it read is on the console although the
\* threshold is above the record by now
ThresholdVisibilityWitness ==
    \E t \in Threads :
        /\ pc[t] = "log_file" /\ rec[t].level >= rec[t].thr
        /\ rec[t].level < level_
        /\ stdout # <<>> /\ stdout[Len(stdout)].id = rec[t].id

\* ---- C32
\* the step in which thread t returns from a setFile that opens the file
C32_SetFileOpen(t) ==
    /\ pc[t] = "sf_body" /\ pc'[t] = "idle"
    /\ arg[t].b /\ arg[t].path # <<>>

\* the step in which the log call of thread t rotates the file
C32_Rotates(t) ==
    /\ pc[t] = "log_file" /\ pc'[t] # "log_file"
    /\ fileEnabled_ /\ fileHandle_ # NULL
    /\ tnow[t] - fileOpenTime_ > RotationPeriod

\* an open that succeeds records the time of the open with the handle; one
\* that fails leaves no handle and the time as it was
C32_Open ==
    \A t \in Threads :
        (C32_SetFileOpen(t) \/ C32_Rotates(t)) =>
            IF fileHandle_' # NULL
            THEN fileOpenTime_' = now
            ELSE fileOpenTime_' = fileOpenTime_

\* no other step opens a handle or changes the time
C32_Else ==
    (\A t \in Threads : ~C32_SetFileOpen(t) /\ ~C32_Rotates(t)) =>
        /\ fileOpenTime_' = fileOpenTime_
        /\ fileHandle_' \in {fileHandle_, NULL}
        /\ fileHandle_' # NULL => openFiles'[fileHandle_'].path
                                     = openFiles[fileHandle_].path

\* the open handle is on the day file of the base path at the recorded time,
\* which is not in the future
C32_Meaningful ==
    fileHandle_ # NULL =>
        /\ fileHandle_ \in DOMAIN openFiles
        /\ StartTime <= fileOpenTime_ /\ fileOpenTime_ <= now
        /\ openFiles[fileHandle_].path
              = FinalPath(baseFilePath_, fileOpenTime_)

\* C32: whenever a file handle is open, the file-open time is the time at
\* which that handle was opened.  A successful open in setFile or in a
\* rotation sets the time to the wall clock of the open together with the
\* handle; a failed open leaves no handle and the time unchanged; no other
\* step touches the time or opens a handle.
OpenTimeOfHandle == []C32_Meaningful /\ [][C32_Open /\ C32_Else]_vars

\* a rotation has opened the file of the next day at the time of the rotation,
\* later than the start of the process, and its log call is about to write
OpenTimeOfHandleWitness ==
    \E t \in Threads :
        /\ pc[t] = "log_fprintf1" /\ tries[t] = 1
        /\ fileHandle_ # NULL /\ fileOpenTime_ = now
        /\ fileOpenTime_ > StartTime + RotationPeriod

\* ---- C33
\* C33: a single log call makes at most one attempt to open the log file: a
\* failed reopen in a rotation is not tried again within the same call.
OneAttempt == \A t \in Threads : tries[t] <= 1

\* ---- C34
\* the digits 0..9 and the number a sequence of digits stands for
Digits == {"0", "1", "2", "3", "4", "5", "6", "7", "8", "9"}
DigitOf(c) == CHOOSE d \in 0..9 : DigitChar(d) = c
RECURSIVE ValueOf(_)
ValueOf(ds) ==
    IF ds = <<>> THEN 0
    ELSE 10 * ValueOf(SubSeq(ds, 1, Len(ds) - 1)) + DigitOf(ds[Len(ds)])

\* text is the canonical decimal representation of n: a '-' exactly for a
\* negative n, then the digits of its magnitude without a leading zero
Canonical(text, n) ==
    LET neg == text # <<>> /\ text[1] = "-"
        ds == IF neg THEN SubSeq(text, 2, Len(text)) ELSE text
    IN /\ neg <=> (n < 0)
       /\ ds # <<>> /\ \A i \in 1..Len(ds) : ds[i] \in Digits
       /\ Len(ds) > 1 => ds[1] # "0"
       /\ ValueOf(ds) = (IF n < 0 THEN -n ELSE n)

\* the integers appended
Ints == {v \in AllVals : v.kind = "int"}

\* the longest text of an integer: the least 64-bit value
Int64Min == <<"-", "9", "2", "2", "3", "3", "7", "2", "0", "3", "6", "8", "5",
              "4", "7", "7", "5", "8", "0", "8">>
MaxIntLen == Len(Int64Min)

\* C34: every integer appended to a builder that has room for the text of
\* any integer is rendered as its canonical decimal representation, and the
\* offset advances by exactly the number of characters rendered.
IntegerCanonical ==
    [][\A t \in Threads, v \in Ints :
          (BuilderAppend(t, v) /\ Room(stream[t]) >= MaxIntLen) =>
              LET b == stream[t]
                  a == stream'[t]
              IN /\ a.offset > b.offset
                 /\ SubSeq(a.buffer, 1, b.offset) = b.buffer
                 /\ Len(a.buffer) = a.offset
                 /\ Canonical(SubSeq(a.buffer, b.offset + 1, a.offset),
                              v.n)]_vars

\* ---- C35
\* the renderings of a sequence of values, one after the other
RECURSIVE Concat(_)
Concat(vs) ==
    IF vs = <<>> THEN <<>>
    ELSE Concat(SubSeq(vs, 1, Len(vs) - 1)) \o Rendered(vs[Len(vs)])

\* a text cut at the capacity of the buffer
Cut(text) == SubSeq(text, 1, Min(Len(text), BUFFER_SIZE - 1))

\* C35: the message a builder hands off is the concatenation, in call order,
\* of the renderings of all values appended to it, cut at the capacity of
\* the buffer; an append never changes what was appended before it.
ChainedAppends ==
    [][\A t \in Threads :
          /\ (pc[t] = "accum" /\ pc'[t] = "log_filter") =>
                rec'[t].msg = CStr(Cut(Concat(appended[t])))
          /\ (pc[t] = "accum" /\ pc'[t] = "accum") =>
                SubSeq(stream'[t].buffer, 1, stream[t].offset)
                   = stream[t].buffer]_vars

\* ---- C36
\* the configuration: threshold, console flag, file-enabled flag, base path
Config == <<level_, console_, fileEnabled_, baseFilePath_>>

\* no step of a log call, from its start to its return, changes the
\* configuration
C36_Frame ==
    \A t \in Threads :
        (pc[t] \in InLog \/ pc'[t] \in InLog) /\ pc'[t] # pc[t] =>
            UNCHANGED Config

\* the file a log call leaves open after a rotation is the day file of the
\* base path given to setFile
C36_Name ==
    \A t \in Threads :
        (pc[t] = "log_file" /\ pc'[t] # "log_file" /\ fileHandle_' # NULL) =>
            /\ baseFilePath_' = baseFilePath_
            /\ openFiles'[fileHandle_'].path
                  = FinalPath(baseFilePath_, fileOpenTime_')

\* C36: log never changes the configuration.  Every step of every log call,
\* filtered or emitted, with or without rotation, the reopen granted or
\* refused, leaves the threshold, the console flag, the file-enabled flag and
\* the base path unchanged, and the file opened by a rotation is named after
\* the base path given to setFile, not after the file open before.
LogKeepsConfig == [][C36_Frame /\ C36_Name]_vars

\* a rotation, its first open refused and its second granted, has opened
\* the file of the new day next to the file of the day before, both named
\* after the base path
LogKeepsConfigWitness ==
    \E t \in Threads :
        /\ pc[t] = "log_fprintf1" /\ tries[t] = 2
        /\ fileHandle_ \in DOMAIN openFiles
        /\ openFiles[fileHandle_].path = FinalPath(baseFilePath_, now)
        /\ \E q \in DOMAIN fs :
              /\ q # openFiles[fileHandle_].path
              /\ q = FinalPath(baseFilePath_, StartTime)

\* ---- C37
\* the directory of a path: everything up to its last directory separator,
\* the current directory written as the empty path
DirOf(p) ==
    LET d == SubSeq(p, 1, LastIn(p, "/"))
    IN IF Len(d) >= 2 /\ d[1] = "." /\ d[2] = "/" THEN SubSeq(d, 3, Len(d))
       ELSE d

\* C37: the date suffix goes into the file-name component only.  For every
\* base path that names a file, the file open lies in the directory of the
\* base path, also when a directory component contains a dot and the file
\* name has no extension.
SameDirectory ==
    (fileHandle_ # NULL /\ PlainName(baseFilePath_)) =>
        DirOf(openFiles[fileHandle_].path) = DirOf(baseFilePath_)

\* ---- C38
\* the place of the line of record id on the console, 0 when it has none
ConsolePlace(id) ==
    IF \E i \in 1..Len(stdout) : stdout[i].id = id
    THEN CHOOSE i \in 1..Len(stdout) : stdout[i].id = id
    ELSE 0

\* in every file the lines of one thread stand in the order of its calls
C38_PerThread ==
    \A p \in DOMAIN fs :
        \A i, j \in 1..Len(fs[p]) :
            (i < j /\ fs[p][i].id[1] = fs[p][j].id[1]) =>
                fs[p][i].id[2] <= fs[p][j].id[2]

\* a file grows only at its end, by the line of the call that holds the
\* mutex: the lines of a file stand in the order of the critical sections
C38_LockOrder ==
    \A p \in DOMAIN fs :
        (p \in DOMAIN fs' /\ fs'[p] # fs[p]) =>
            \E t \in Threads :
                /\ mutex_ = t /\ pc[t] \in Locked
                /\ Len(fs'[p]) = Len(fs[p]) + 2
                /\ SubSeq(fs'[p], 1, Len(fs[p])) = fs[p]
                /\ fs'[p][Len(fs[p]) + 1].id = rec[t].id
                /\ fs'[p][Len(fs[p]) + 2].id = rec[t].id

\* two records that are both on the console, written under the same lock,
\* and in one file stand in the same order in both
C38_AsConsole ==
    \A p \in DOMAIN fs :
        \A i, j \in 1..Len(fs[p]) :
            (i < j /\ ConsolePlace(fs[p][i].id) # 0
               /\ ConsolePlace(fs[p][j].id) # 0) =>
                ConsolePlace(fs[p][i].id) <= ConsolePlace(fs[p][j].id)

\* C38: order.  The lines of one thread stand in a file in the order in
\* which the thread made its calls; across threads the lines of a file stand
\* in the order in which the log calls held the mutex.
LineOrder == [](C38_PerThread /\ C38_AsConsole) /\ [][C38_LockOrder]_vars

\* a file holds two lines of one thread in the order of its calls and after
\* them a line of the other thread
LineOrderWitness ==
    \E p \in DOMAIN fs :
        /\ Len(fs[p]) = 6 /\ CompleteLines(fs[p])
        /\ fs[p][1].id[1] = fs[p][3].id[1]
        /\ fs[p][1].id[2] < fs[p][3].id[2]
        /\ fs[p][5].id[1] # fs[p][1].id[1]
        /\ ConsolePlace(fs[p][5].id) = 3

\* ---- C39
\* the positions of log that write to or flush the handle
Writing == {"log_fprintf1", "log_fprintf2", "log_fflush"}

\* a call that writes holds the mutex, and the handle it writes is an open
\* FILE on the day file of the base path
C39_OpenHandle ==
    \A t \in Threads :
        pc[t] \in Writing =>
            /\ mutex_ = t /\ ~crashed
            /\ fileHandle_ \in DOMAIN openFiles
            /\ openFiles[fileHandle_].path
                  = FinalPath(baseFilePath_, fileOpenTime_)

\* while a call writes, the handle and the FILE objects stay as they are but
\* for the bytes of that call, and its line reaches the file of that handle
C39_Steady ==
    \A t \in Threads :
        pc[t] \in Writing =>
            /\ fileHandle_' = fileHandle_
            /\ DOMAIN openFiles' = DOMAIN openFiles
            /\ openFiles'[fileHandle_].path = openFiles[fileHandle_].path
            /\ \A p \in DOMAIN fs :
                  fs'[p] # fs[p] =>
                      /\ p = openFiles[fileHandle_].path
                      /\ pc[t] = "log_fflush" /\ pc'[t] = "log_unlock"

\* C39: under any interleaving of log with setFile (enable, re-enable with
\* another path, disable) log never writes to or flushes a handle that has
\* been closed: the handle a call writes is open at that moment and stays so
\* until the call has flushed, and the record goes to the file that is
\* current while the call holds the mutex.
NoClosedHandle == []C39_OpenHandle /\ [][C39_Steady]_vars

\* a call is in the middle of its write to the second file while the other
\* thread, about to call setFile, has to wait for the mutex
NoClosedHandleWitness ==
    \E t, u \in Threads :
        /\ t # u /\ pc[t] = "log_fprintf2" /\ pc[u] = "idle"
        /\ nops < MaxOps /\ ~ENABLED SetFileEnter(u, FALSE, <<>>)
        /\ Cardinality(DOMAIN fs) = 2

\* ---- C40
\* the offset is within the buffer with room for the terminator, and the
\* text of the buffer ends at the offset, where the terminating NUL stands
C40_Bounds ==
    \A t \in Threads :
        stream[t].live =>
            /\ 0 <= stream[t].offset /\ stream[t].offset <= BUFFER_SIZE - 1
            /\ Len(stream[t].buffer) = stream[t].offset

\* an append never moves the offset back, and writes nothing at or beyond
\* index BUFFER_SIZE: the last byte it writes is the NUL at the new offset
C40_Step ==
    \A t \in Threads :
        (stream[t].live /\ stream'[t].live) =>
            /\ stream'[t].offset >= stream[t].offset
            /\ stream'[t].offset + 1 <= BUFFER_SIZE

\* C40: the builder buffer invariant.  After construction and after every
\* append of a value of any type and length, 0 <= offset <= 4095, the offset
\* has not decreased, the text ends at the offset (the terminating NUL), and
\* nothing is written at an index >= 4096.
BufferInvariant == []C40_Bounds /\ [][C40_Step]_vars

\* a text of 4094 characters and one more character have filled the buffer
\* to its last free place
BufferInvariantWitness ==
    \E t \in Threads :
        /\ stream[t].live /\ napp[t] = 2
        /\ stream[t].offset = BUFFER_SIZE - 1
        /\ stream[t].buffer[BUFFER_SIZE - 1] = "c"

====
